---------------------------- MODULE Spec2Model ----------------------------
(***************************************************************************)
(* A model of the imbatracer ray queue, the scheduler pass of the          *)
(* integrators, the image accumulation, the render() orchestration and the *)
(* per-hit bounce logic.  Every part has its own specification over the    *)
(* same variables; the variables of the other parts stay at their idle     *)
(* values.                                                                 *)
(***************************************************************************)
EXTENDS Integers, Sequences, FiniteSets, TLC

(***************************************************************************)
(* Bounds of the model.                                                    *)
(***************************************************************************)
NThreads == 2
MaxBatch == 2
Capacity == 3
NShadow == 2
NPixels == 2
MaxThroughput == 2
PassPixels == 1
Target == 1
MaxCameraPathLen == 2
MaxLightPathLen == 2
LoopRays == 3
GenPixels == 2
GenSamples == 1
MaxRd == 1
NProbes == 2
MaxBase == 4
MaxRadiusIter == 6
MisMaxLength == 4
MaxLightVerts == 1
MaxIter == 2
MaxVerts == 1
MaxDenom == 2
NDPaths == 2
DPixels == 1
MaxPathLen == 3
NumKnn == 1
NumMats == 2
FrameWidth == 2
FrameHeight == 1
FrameSamples == 2
MaxProbeHits == 3
MaxVertexCount == 6
LifeCapacity == 2

(***************************************************************************)
(* RayQueue (render/ray_queue.h).                                          *)
(***************************************************************************)
VARIABLES
    last_,          \* std::atomic<int> last_
    ray_buffer_,    \* ray_buffer_[i]: 0 = zeroed by the constructor, else a ray id
    state_buffer_,  \* state_buffer_[i]: the state stored next to ray i
    n0,             \* size() of the queue before the concurrent calls
    other_size,     \* size() of the queue passed to append
    qpc,            \* position of every caller inside its push / append call
    qop,            \* which call the caller runs
    qcnt,           \* count of the call
    qend,           \* end_idx (id for a single push) of the call
    qwrote,         \* slots into which the call has written so far
    slot_writers,   \* for every slot, the calls that wrote into it
    oob,            \* a write went outside the buffers
    fatal           \* the "ray queue full" assertion fired

qvars == <<last_, ray_buffer_, state_buffer_, n0, other_size, qpc, qop, qcnt,
           qend, qwrote, slot_writers, oob, fatal>>

(***************************************************************************)
(* The image and one batch of shadow rays processed in parallel            *)
(* (PathTracer::process_shadow_rays, integrators/pt.cpp).                  *)
(***************************************************************************)
VARIABLES
    pixels,     \* out.pixels(): the accumulated value of every pixel
    img0,       \* the image before the batch is processed
    sh_states,  \* states[i] of the shadow queue: pixel_id and throughput
    sh_hits,    \* hits[i].tri_id of the shadow queue after traverse_occluded
    ipc,        \* position of loop iteration i
    itmp        \* the pixel value iteration i has read for its +=

ivars == <<pixels, img0, sh_states, sh_hits, ipc, itmp>>

(***************************************************************************)
(* One scheduler pass (BidirPathTracer::trace_camera_paths,                *)
(* integrators/bpt.cpp; PathTracer::render and trace_light_paths run the   *)
(* same loop).                                                             *)
(***************************************************************************)
VARIABLES
    ppc,            \* position inside the while(true) loop of the pass
    in_queue,       \* index of the in queue; the out queue is the other one
    primary_rays_,  \* the entries [0, size()) of the two primary queues
    shadow_rays_,   \* the entries [0, size()) of the shadow queue
    next_pixel_,    \* PixelRayGen::next_pixel_
    p_todo,         \* indices of the in queue the process loop has yet to visit
    p_img,          \* the image the pass accumulates into
    light_path_len, \* light_paths_.get_path_len(pixel_id)
    traversed,      \* for every ray created so far, how often it was traversed
    processed       \* for every ray created so far, how often it was processed

pvars == <<ppc, in_queue, primary_rays_, shadow_rays_, next_pixel_, p_todo,
           p_img, light_path_len, traversed, processed>>

(***************************************************************************)
(* One integrator and its render() calls (integrators/deferred_vcm.cpp,    *)
(* integrators/vcm.cpp, integrators/bpt.cpp).  A cached vertex is          *)
(* represented by the number of the render() call that stored it.          *)
(***************************************************************************)
VARIABLES
    integrator,     \* the class and the template arguments of the integrator
    rpc,            \* position of the calling thread inside render(), 0 outside
    iteration,      \* number of render() calls started so far
    cur_iteration_, \* the member of that name
    cam_verts_,     \* the camera vertex cache
    light_verts_,   \* the light vertex cache (light_paths_ in vcm.cpp, bpt.cpp)
    photon_grid_,   \* the vertices the photon grid indexes
    grid_built,     \* the render() call in which the grid was built last
    n_added,        \* vertices the running trace pass has stored
    cam_traced,     \* the render() call whose trace_camera_paths has returned
    light_traced,   \* the render() call whose trace_light_paths has returned
    task,           \* state of the std::async tasks m, pt, lt and conn
    dropped,        \* vertices the current render() call removed from the caches
    last_read       \* the vertices the latest technique pass step has read

rvars == <<integrator, rpc, iteration, cur_iteration_, cam_verts_, light_verts_,
           photon_grid_, grid_built, n_added, cam_traced, light_traced, task,
           dropped, last_read>>

(***************************************************************************)
(* One hit of one path and the bounce that continues it (the bounce        *)
(* functions of pt.cpp, bpt.cpp, vcm.cpp, deferred_vcm.cpp and             *)
(* deferred_vertices.cpp, and VCMIntegrator::process_camera_rays).         *)
(* A float is represented by a fraction n / d; d = 0 stands for a value    *)
(* that is not finite (inf or NaN).                                        *)
(***************************************************************************)
VARIABLES
    b_integ,        \* the class and the template arguments of the integrator
    b_eta,          \* etaVCM of the current iteration
    b_pc,           \* "hit" before the hit is processed, "done" after
    b_state,        \* states[i]: the state of the path at the hit
    b_hit,          \* what the hit is: tri_id < 0, specular material, light
    b_calls,        \* the calls of bounce: state passed, sample drawn, result
    b_rays_out,     \* the states pushed into rays_out
    b_shadow,       \* the shadow rays pushed, by the technique that pushed
    b_image,        \* the contributions added to the images
    b_alive,        \* FALSE once terminate_path(state) was called
    b_vertex_count  \* vertex_count of the path-length probe

bvars == <<b_integ, b_eta, b_pc, b_state, b_hit, b_calls, b_rays_out, b_shadow,
           b_image, b_alive, b_vertex_count>>

\* One iteration of DeferredVCM: the path states the scheduler traces, the two
\* vertex caches, and the shadow rays and merge contributions of the shading
\* passes.
VARIABLES
    d_pc,           \* "idle", "trace", "shade", "shaded"
    d_max,          \* settings_.max_path_len
    d_paths,        \* path id -> State (path_length, pixel_id) and its status
    d_cam,          \* cam_verts_
    d_light,        \* light_verts_
    d_log           \* what the generator call of a shading pass did

dvars == <<d_pc, d_max, d_paths, d_cam, d_light, d_log>>

\* compact_rays and sort_by_material of RayQueue, which work on last_,
\* ray_buffer_ and state_buffer_ declared above.
VARIABLES
    s_pc,            \* "idle", or the position inside the call
    s_orig,          \* the entries of the queue before the compaction
    s_i,             \* i of the loop of compact_rays / compact_hits
    last_empty,      \* last_empty of compact_rays / compact_hits
    s_count,         \* count of sort_by_material
    hit_buffer_,     \* hit_buffer_[i]: the material id get_mat_id gives for
                     \* it (sort_by_material), the hit itself (compact_hits)
    dir_w,           \* ray_buffer_[i].dir.w
    matcount_,       \* std::vector<std::atomic<int> > matcount_
    sorted_indices_, \* sorted_indices_[k]; -1: not written by the call
    s_task,          \* position of iteration i of the running parallel loop
    s_slot           \* the value matcount_[mat]++ returned to iteration i

svars == <<s_pc, s_orig, s_i, last_empty, s_count, hit_buffer_, dir_w,
           matcount_, sorted_indices_, s_task, s_slot>>

\* the while(true) loop of PathTracer::render and of
\* BidirPathTracer::trace_light_paths / trace_camera_paths, reduced to what
\* decides how long it runs: the generator, the two primary queues with the
\* length of every path in them, and the shadow queue.
VARIABLES
    l_kind,      \* which of the three loops runs
    l_pc,        \* "idle", or the statement of the loop body that runs next
    l_next,      \* next_pixel_ of the ray generator
    l_in_queue,  \* in_queue
    l_rays,      \* primary queue -> bounces / path_length of every ray
    l_shadow,    \* shadow_rays.size()
    l_capped     \* a path was ended by the cap alone

lvars == <<l_kind, l_pc, l_next, l_in_queue, l_rays, l_shadow, l_capped>>

\* Two runs of the ray generators side by side, with the same width_,
\* height_, n_samples_ and target_ in both.
VARIABLES
    g_pc,      \* "idle" or "run"
    g_next,    \* run -> next_pixel_ of PixelRayGen
    g_rays,    \* run -> the states fill_queue has pushed, in order
    g_probes   \* run -> the probe states estimate_light_path_len has seeded

gvars == <<g_pc, g_next, g_rays, g_probes>>

\* The merge radius of the progressive integrators: VCMIntegrator::render
\* and DeferredVCM<mis::MisVCM>::render / DeferredVCM<mis::MisSPPM>::render
\* (cur_iteration_ is declared above).  A radius is held as its eighth power,
\* in units of the eighth power of 1e-7, so that powf with an exponent that
\* is a multiple of 1/8 is exact.
VARIABLES
    m_pc,          \* "idle", "call" (render may be called), "inc"
    m_integ,       \* the integrator render is called on
    base_radius_,  \* base_radius_
    radius_alpha_, \* radius_alpha_ of VCMIntegrator, radius_alpha of DeferredVCM
    pm_radius_     \* pm_radius_

mvars == <<m_pc, m_integ, base_radius_, radius_alpha_, pm_radius_>>

\* One light transport path camera - x1 - x2 - light, sampled by every
\* technique of VCMIntegrator that can create it (b_integ and b_eta, declared
\* above, are the integrator and its etaVCM).
VARIABLES
    w_pc,       \* "idle", or the operation that runs next
    w_at,       \* the vertex the running subpath has reached
    w_path,     \* the geometry and the pdfs of the path
    w_state,    \* the VCMState of the running subpath
    w_verts,    \* light_paths_: the light vertices stored, x2 first
    w_weights   \* technique -> the MIS weight it computed for the path

wvars == <<w_pc, w_at, w_path, w_state, w_verts, w_weights>>

\* One frame of a PixelRayGen: the generator, the queue it fills and the
\* consumer that empties the queue between two calls of fill_queue.
VARIABLES
    f_kind,     \* "capacity": ray_gen/ray_gen.h, "target": ray_gen.h
    f_pc,       \* "idle", "run"
    f_next,     \* next_pixel_
    f_target,   \* target_ (ray_gen.h only)
    f_cap,      \* out.capacity()
    f_size,     \* out.size()
    f_log,      \* the (pixel, sample) pairs offered to the callback so far
    f_free,     \* free slots of the queue when the last fill_queue started
    f_pushed    \* rays pushed by the last fill_queue

fvars == <<f_kind, f_pc, f_next, f_target, f_cap, f_size, f_log, f_free,
           f_pushed>>

\* The probing pass of estimate_light_path_len / estimate_cam_path_len: the
\* probe paths are followed one after the other.
VARIABLES
    e_pc,           \* "idle", "generate", "traverse", "shade", "done"
    e_kind,         \* "light": estimate_light_path_len, "cam": estimate_cam_path_len
    e_left,         \* probe paths the tile generator has yet to start
    e_state,        \* the ProbeState of the running path
    e_hits,         \* hits of the running path shaded so far, up to MaxProbeHits
    e_vertex_count  \* vertex_count, up to MaxVertexCount

evars == <<e_pc, e_kind, e_left, e_state, e_hits, e_vertex_count>>

latervars == <<fvars, evars>>

restvars == <<mvars, wvars, latervars>>

newvars == <<dvars, svars, lvars, gvars, restvars>>

vars == <<qvars, ivars, pvars, rvars, bvars, newvars>>

\* the variables the actions of one part leave alone
nonqueue == <<ivars, pvars, rvars, bvars, newvars>>
nonimage == <<qvars, pvars, rvars, bvars, newvars>>
nonpass == <<qvars, ivars, rvars, bvars, newvars>>
nonrender == <<qvars, ivars, pvars, bvars, newvars>>
nonbounce == <<qvars, ivars, pvars, rvars, newvars>>
nondeferred ==
    <<qvars, ivars, pvars, rvars, bvars, svars, lvars, gvars, restvars>>
nonsort == <<ivars, pvars, rvars, bvars, dvars, lvars, gvars, restvars>>
nonloop == <<qvars, ivars, pvars, rvars, bvars, dvars, svars, gvars, restvars>>
nongen == <<qvars, ivars, pvars, rvars, bvars, dvars, svars, lvars, restvars>>
firstvars == <<qvars, ivars, pvars, rvars, bvars, dvars, svars, lvars, gvars>>
nonradius ==
    <<qvars, ivars, pvars, bvars, dvars, svars, lvars, gvars, wvars, latervars>>
nonmis ==
    <<qvars, ivars, pvars, rvars, dvars, svars, lvars, gvars, mvars, latervars>>
nonframe == <<firstvars, mvars, wvars, evars>>
nonprobe == <<firstvars, mvars, wvars, fvars>>

\* the variables of the queue part that belong to push and append
queuecalls == <<n0, other_size, qpc, qop, qcnt, qend, qwrote, slot_writers,
                oob, fatal>>

Threads == 1..NThreads

traversal_block_size == 8

align(v) ==
    IF v % traversal_block_size = 0
    THEN v
    ELSE (v + traversal_block_size) - (v % traversal_block_size)

\* ray_buffer_.size(), which equals state_buffer_.size() and capacity()
BufSize == align(Capacity)

Slots == 0..(BufSize - 1)

\* The j-th ray (and its state) handed to the call of caller t.
Item(t, j) == 100 * t + j

\* The entry a queue of size n0 holds in slot i before the calls.
InitEntry(i) == i + 1

\* The entry the appended queue holds in its slot i.
OtherEntry(i) == 50 + i

size == last_ + 1

StartIdx_off(end_idx, count) == end_idx - count

StartIdx(end_idx, count) == end_idx - (count - 1)

AssertInRange_off(idx) == idx <= BufSize

\* the condition of assert(... < ray_buffer_.size() && "ray queue full")
AssertInRange(idx) == idx < BufSize

InitQueueAt(n, o) ==
    /\ n0 = n
    /\ other_size = o
    /\ last_ = n0 - 1
    /\ ray_buffer_ = [i \in Slots |-> IF i < n0 THEN InitEntry(i) ELSE 0]
    /\ state_buffer_ = [i \in Slots |-> IF i < n0 THEN InitEntry(i) ELSE 0]
    /\ qpc = [t \in Threads |-> "idle"]
    /\ qop = [t \in Threads |-> "none"]
    /\ qcnt = [t \in Threads |-> 0]
    /\ qend = [t \in Threads |-> -1]
    /\ qwrote = [t \in Threads |-> {}]
    /\ slot_writers = [i \in Slots |-> {}]
    /\ oob = FALSE
    /\ fatal = FALSE

Pixels == 0..(NPixels - 1)

ShadowIdx == 0..(NShadow - 1)

InitImageIdle ==
    /\ pixels = [p \in Pixels |-> 0]
    /\ img0 = [p \in Pixels |-> 0]
    /\ sh_states = <<>>
    /\ sh_hits = <<>>
    /\ ipc = <<>>
    /\ itmp = <<>>

InitQueueIdle == InitQueueAt(0, 0)

InitPassIdle ==
    /\ ppc = "idle"
    /\ in_queue = 0
    /\ primary_rays_ = <<>>
    /\ shadow_rays_ = <<>>
    /\ next_pixel_ = 0
    /\ p_todo = {}
    /\ p_img = <<>>
    /\ light_path_len = 0
    /\ traversed = <<>>
    /\ processed = <<>>

Tasks == {"m", "pt", "lt", "conn"}

NoIntegrator ==
    [kind |-> "none", mis |-> "none", bpt_only |-> FALSE, ppm_only |-> FALSE,
     lt_only |-> FALSE, pt_only |-> FALSE]

InitRenderAt(integ) ==
    /\ integrator = integ
    /\ rpc = 0
    /\ iteration = 0
    /\ cur_iteration_ = 0
    /\ cam_verts_ = <<>>
    /\ light_verts_ = <<>>
    /\ photon_grid_ = <<>>
    /\ grid_built = 0
    /\ n_added = 0
    /\ cam_traced = 0
    /\ light_traced = 0
    /\ task = [t \in Tasks |-> "none"]
    /\ dropped = 0
    /\ last_read = {}

InitRenderIdle == InitRenderAt(NoIntegrator)

InitBounceIdle ==
    /\ b_integ = NoIntegrator
    /\ b_eta = <<>>
    /\ b_pc = "idle"
    /\ b_state = <<>>
    /\ b_hit = <<>>
    /\ b_calls = <<>>
    /\ b_rays_out = <<>>
    /\ b_shadow = <<>>
    /\ b_image = <<>>
    /\ b_alive = TRUE
    /\ b_vertex_count = 0

InitDeferredIdle ==
    /\ d_pc = "idle"
    /\ d_max = 0
    /\ d_paths = <<>>
    /\ d_cam = <<>>
    /\ d_light = <<>>
    /\ d_log = {}

InitSortIdle ==
    /\ s_pc = "idle"
    /\ s_orig = <<>>
    /\ s_i = 0
    /\ last_empty = -1
    /\ s_count = 0
    /\ hit_buffer_ = <<>>
    /\ dir_w = <<>>
    /\ matcount_ = <<>>
    /\ sorted_indices_ = <<>>
    /\ s_task = <<>>
    /\ s_slot = <<>>

InitLoopIdle ==
    /\ l_kind = "none"
    /\ l_pc = "idle"
    /\ l_next = 0
    /\ l_in_queue = 0
    /\ l_rays = <<>>
    /\ l_shadow = 0
    /\ l_capped = FALSE

InitGenIdle ==
    /\ g_pc = "idle"
    /\ g_next = <<>>
    /\ g_rays = <<>>
    /\ g_probes = <<>>

InitRadiusIdle ==
    /\ m_pc = "idle"
    /\ m_integ = "none"
    /\ base_radius_ = 0
    /\ radius_alpha_ = 0
    /\ pm_radius_ = 0

InitMisIdle ==
    /\ w_pc = "idle"
    /\ w_at = 0
    /\ w_path = <<>>
    /\ w_state = <<>>
    /\ w_verts = <<>>
    /\ w_weights = <<>>

InitFrameIdle ==
    /\ f_kind = "none"
    /\ f_pc = "idle"
    /\ f_next = 0
    /\ f_target = 0
    /\ f_cap = 0
    /\ f_size = 0
    /\ f_log = <<>>
    /\ f_free = 0
    /\ f_pushed = 0

InitProbeIdle ==
    /\ e_pc = "idle"
    /\ e_kind = "none"
    /\ e_left = 0
    /\ e_state = <<>>
    /\ e_hits = 0
    /\ e_vertex_count = 0

InitLaterIdle == InitFrameIdle /\ InitProbeIdle

InitRestIdle == InitRadiusIdle /\ InitMisIdle /\ InitLaterIdle

InitNewIdle ==
    InitDeferredIdle /\ InitSortIdle /\ InitLoopIdle /\ InitGenIdle
        /\ InitRestIdle

\* push(ray, state): int id = ++last_;
PushSingle(t) ==
    /\ ~fatal
    /\ qpc[t] = "idle"
    /\ last_' = last_ + 1
    /\ qop' = [qop EXCEPT ![t] = "single"]
    /\ qcnt' = [qcnt EXCEPT ![t] = 1]
    /\ qend' = [qend EXCEPT ![t] = last_ + 1]
    /\ qpc' = [qpc EXCEPT ![t] = "assert"]
    /\ UNCHANGED <<ray_buffer_, state_buffer_, n0, other_size, qwrote,
                   slot_writers, oob, fatal>>
    /\ UNCHANGED nonqueue

\* push(rays_begin, rays_end, ...): int end_idx = last_ += count;
PushBatch(t) ==
    /\ ~fatal
    /\ qpc[t] = "idle"
    /\ \E count \in 1..MaxBatch :
        /\ last_' = last_ + count
        /\ qcnt' = [qcnt EXCEPT ![t] = count]
        /\ qend' = [qend EXCEPT ![t] = last_ + count]
    /\ qop' = [qop EXCEPT ![t] = "batch"]
    /\ qpc' = [qpc EXCEPT ![t] = "assert"]
    /\ UNCHANGED <<ray_buffer_, state_buffer_, n0, other_size, qwrote,
                   slot_writers, oob, fatal>>
    /\ UNCHANGED nonqueue

\* append(other): int count = other.size(); int end_idx = last_ += count;
QueueAppend(t) ==
    /\ ~fatal
    /\ qpc[t] = "idle"
    /\ last_' = last_ + other_size
    /\ qcnt' = [qcnt EXCEPT ![t] = other_size]
    /\ qend' = [qend EXCEPT ![t] = last_ + other_size]
    /\ qop' = [qop EXCEPT ![t] = "append"]
    /\ qpc' = [qpc EXCEPT ![t] = "assert"]
    /\ UNCHANGED <<ray_buffer_, state_buffer_, n0, other_size, qwrote,
                   slot_writers, oob, fatal>>
    /\ UNCHANGED nonqueue

\* assert(end_idx < ray_buffer_.size() && "ray queue full");
PushAssert(t) ==
    /\ ~fatal
    /\ qpc[t] = "assert"
    /\ IF AssertInRange(qend[t])
       THEN /\ qpc' = [qpc EXCEPT ![t] = "copy_rays"]
            /\ UNCHANGED fatal
       ELSE /\ qpc' = [qpc EXCEPT ![t] = "fatal"]
            /\ fatal' = TRUE
    /\ UNCHANGED <<last_, ray_buffer_, state_buffer_, n0, other_size, qop,
                   qcnt, qend, qwrote, slot_writers, oob>>
    /\ UNCHANGED nonqueue

\* Number of elements the call copies: the iterator range of push, the whole
\* buffer of the other queue (other.ray_buffer_.begin() .. end()) for append.
CopyLen(t) == IF qop[t] = "append" THEN BufSize ELSE qcnt[t]

\* The j-th element (j = 0 ..) the call copies.
CopySrc(t, j) ==
    IF qop[t] = "append"
    THEN (IF j < other_size THEN OtherEntry(j) ELSE 0)
    ELSE Item(t, j + 1)

\* The slots the copy of the call writes.
CopyDst(t) ==
    { StartIdx(qend[t], qcnt[t]) + j : j \in 0..(CopyLen(t) - 1) }

CopyInto(buf, t) ==
    [i \in Slots |->
        IF i \in CopyDst(t)
        THEN CopySrc(t, i - StartIdx(qend[t], qcnt[t]))
        ELSE buf[i]]

\* ray_buffer_[id] = ray;  /  std::copy(rays_begin, rays_end, ...)
PushCopyRays(t) ==
    /\ ~fatal
    /\ qpc[t] = "copy_rays"
    /\ ray_buffer_' = CopyInto(ray_buffer_, t)
    /\ oob' = (oob \/ \E i \in CopyDst(t) : i \notin Slots)
    /\ qwrote' = [qwrote EXCEPT ![t] = CopyDst(t)]
    /\ slot_writers' = [i \in Slots |->
            IF i \in CopyDst(t) THEN slot_writers[i] \cup {t} ELSE slot_writers[i]]
    /\ qpc' = [qpc EXCEPT ![t] = "copy_states"]
    /\ UNCHANGED <<last_, state_buffer_, n0, other_size, qop, qcnt, qend, fatal>>
    /\ UNCHANGED nonqueue

\* state_buffer_[id] = state;  /  std::copy(states_begin, states_end, ...)
PushCopyStates(t) ==
    /\ ~fatal
    /\ qpc[t] = "copy_states"
    /\ state_buffer_' = CopyInto(state_buffer_, t)
    /\ oob' = (oob \/ \E i \in CopyDst(t) : i \notin Slots)
    /\ qpc' = [qpc EXCEPT ![t] = "done"]
    /\ UNCHANGED <<last_, ray_buffer_, n0, other_size, qop, qcnt, qend, qwrote,
                   slot_writers, fatal>>
    /\ UNCHANGED nonqueue

\* k concurrent push calls on one queue
NextPush ==
    \E t \in Threads :
        \/ PushSingle(t)
        \/ PushBatch(t)
        \/ PushAssert(t)
        \/ PushCopyRays(t)
        \/ PushCopyStates(t)

InitPush ==
    /\ \E n \in 0..BufSize : InitQueueAt(n, 0)
    /\ InitImageIdle
    /\ InitPassIdle
    /\ InitRenderIdle
    /\ InitBounceIdle
    /\ InitNewIdle

SpecPush == InitPush /\ [][NextPush]_vars

\* push and append calls up to and beyond the capacity
NextOverflow ==
    \E t \in Threads :
        \/ PushSingle(t)
        \/ PushBatch(t)
        \/ QueueAppend(t)
        \/ PushAssert(t)
        \/ PushCopyRays(t)
        \/ PushCopyStates(t)

InitOverflow ==
    /\ \E n \in (BufSize - MaxBatch)..BufSize :
            \E o \in 0..MaxBatch : InitQueueAt(n, o)
    /\ InitImageIdle
    /\ InitPassIdle
    /\ InitRenderIdle
    /\ InitBounceIdle
    /\ InitNewIdle

SpecOverflow == InitOverflow /\ [][NextOverflow]_vars

RECURSIVE SumCnt(_)
SumCnt(S) ==
    IF S = {} THEN 0
    ELSE LET t == CHOOSE x \in S : TRUE IN qcnt[t] + SumCnt(S \ {t})

\* number of rays handed to the calls made so far
TotalPushed == SumCnt({t \in Threads : qpc[t] # "idle"})

AllReturned == \A t \in Threads : qpc[t] \in {"idle", "done"}

\* C1: for every interleaving of concurrent push calls (single or batch) on a
\* queue of size n0 whose capacity is at least n0 plus the number of pushed
\* rays, every pushed ray/state pair is written to its own slot in
\* [n0, n0 + total), no slot is written by two calls, no earlier entry is
\* modified, and size() is n0 + total once all calls have returned.
C1_PushConcurrentSafe ==
    (n0 + TotalPushed <= BufSize) =>
        /\ ~fatal
        /\ ~oob
        /\ \A i \in Slots : Cardinality(slot_writers[i]) <= 1
        /\ \A t \in Threads : \A i \in qwrote[t] :
                i >= n0 /\ i < n0 + TotalPushed
        /\ \A i \in Slots : i < n0 =>
                ray_buffer_[i] = InitEntry(i) /\ state_buffer_[i] = InitEntry(i)
        /\ AllReturned =>
            /\ size = n0 + TotalPushed
            /\ \A t \in Threads : qpc[t] = "done" =>
                \A j \in 1..qcnt[t] :
                    /\ ray_buffer_[qend[t] - qcnt[t] + j] = Item(t, j)
                    /\ state_buffer_[qend[t] - qcnt[t] + j] = Item(t, j)

\* C1 witness: a single push and a batch push of two rays ran concurrently on
\* a non-empty queue and both returned without overflow.
C1_Witness ==
    /\ n0 > 0
    /\ n0 + TotalPushed <= BufSize
    /\ \A t \in Threads : qpc[t] = "done"
    /\ \E t \in Threads : qop[t] = "single"
    /\ \E t \in Threads : qop[t] = "batch" /\ qcnt[t] = 2

\* C5: a push, batch push or append whose resulting last index is at or
\* beyond the buffer size never gets past the assertion: it writes no ray and
\* no state, and it ends in the fatal assertion state.
C5_OverflowFatal ==
    \A t \in Threads :
        (qpc[t] # "idle" /\ qend[t] >= BufSize) =>
            /\ qpc[t] \in {"assert", "fatal"}
            /\ qwrote[t] = {}
            /\ (qpc[t] = "fatal" => fatal)

\* C5 witness: an append whose end index is beyond the buffer hit the
\* assertion after another call had completed its writes.
C5_Witness ==
    /\ fatal
    /\ \E t \in Threads :
        /\ qpc[t] = "fatal"
        /\ qop[t] = "append"
        /\ qend[t] >= BufSize
        /\ \E u \in Threads : u # t /\ qpc[u] = "done"

(***************************************************************************)
(* PathTracer::process_shadow_rays: #pragma omp parallel for over the      *)
(* shadow rays; out.pixels()[pixel_id] += color is a plain read followed   *)
(* by a plain write of the pixel.                                          *)
(***************************************************************************)
ShadowStates == [pixel_id : Pixels, throughput : 1..MaxThroughput]

InitImage ==
    /\ pixels = [p \in Pixels |-> 0]
    /\ img0 = [p \in Pixels |-> 0]
    /\ sh_states \in [ShadowIdx -> ShadowStates]
    /\ sh_hits \in [ShadowIdx -> {-1, 0}]
    /\ ipc = [i \in ShadowIdx |-> "start"]
    /\ itmp = [i \in ShadowIdx |-> 0]
    /\ InitQueueIdle
    /\ InitPassIdle
    /\ InitRenderIdle
    /\ InitBounceIdle
    /\ InitNewIdle

\* if (hits[i].tri_id < 0) is false: the iteration does nothing
ShadowOccluded(i) ==
    /\ ipc[i] = "start"
    /\ ~(sh_hits[i] < 0)
    /\ ipc' = [ipc EXCEPT ![i] = "done"]
    /\ UNCHANGED <<pixels, img0, sh_states, sh_hits, itmp>>
    /\ UNCHANGED nonimage

\* out.pixels()[states[i].pixel_id] += color: the read of the pixel
ShadowLoad(i) ==
    /\ ipc[i] = "start"
    /\ sh_hits[i] < 0
    /\ itmp' = [itmp EXCEPT ![i] = pixels[sh_states[i].pixel_id]]
    /\ ipc' = [ipc EXCEPT ![i] = "loaded"]
    /\ UNCHANGED <<pixels, img0, sh_states, sh_hits>>
    /\ UNCHANGED nonimage

\* out.pixels()[states[i].pixel_id] += color: the write of the sum
ShadowStore(i) ==
    /\ ipc[i] = "loaded"
    /\ pixels' = [pixels EXCEPT ![sh_states[i].pixel_id] =
                        itmp[i] + sh_states[i].throughput]
    /\ ipc' = [ipc EXCEPT ![i] = "done"]
    /\ UNCHANGED <<img0, sh_states, sh_hits, itmp>>
    /\ UNCHANGED nonimage

NextImage ==
    \E i \in ShadowIdx :
        \/ ShadowOccluded(i)
        \/ ShadowLoad(i)
        \/ ShadowStore(i)

SpecImage == InitImage /\ [][NextImage]_vars

RECURSIVE SumContrib(_, _)
SumContrib(S, p) ==
    IF S = {} THEN 0
    ELSE LET i == CHOOSE x \in S : TRUE IN
         (IF sh_hits[i] < 0 /\ sh_states[i].pixel_id = p
          THEN sh_states[i].throughput ELSE 0) + SumContrib(S \ {i}, p)

\* C2: after a batch of shadow rays was processed in parallel, every pixel
\* equals its value before plus the sum of all contributions addressed to
\* it, for every interleaving.
C2_NoContributionLost ==
    (\A i \in ShadowIdx : ipc[i] = "done") =>
        \A p \in Pixels : pixels[p] = img0[p] + SumContrib(ShadowIdx, p)

(***************************************************************************)
(* The scheduler pass.                                                     *)
(***************************************************************************)
\* the pixels of the image a pass renders into
PassPixelSet == 0..(PassPixels - 1)

\* n_samples_ * width_ * height_, with one sample for every pixel
NPrim == PassPixels

out_queue == 1 - in_queue

\* fill_queue: the number of rays one call generates
FillCount(next, qsize) ==
    IF next >= NPrim THEN 0
    ELSE IF Target - qsize <= 0 THEN 0
    ELSE IF next + (Target - qsize) > NPrim THEN NPrim - next
    ELSE Target - qsize

\* fill_queue: the state of primary ray i, the k-th ray created
PrimaryState(i, k) ==
    [id |-> k, pixel_id |-> i % PassPixels, sample_id |-> i \div PassPixels,
     path_length |-> 1, tri_id |-> -2]

\* fill_queue: the rays for i = next .. next + count - 1, pushed in order
RECURSIVE GenRays(_, _, _)
GenRays(next, count, k) ==
    IF count = 0 THEN <<>>
    ELSE <<PrimaryState(next, k)>> \o GenRays(next + 1, count - 1, k + 1)

Zeros(n) == [k \in 1..n |-> 0]

BreakCond_gen == next_pixel_ >= NPrim

\* if (primary_rays_[in_queue].size() <= 0) break;
BreakCond == Len(primary_rays_[in_queue]) <= 0

ShadowApplies_any(tri_id) == TRUE

\* if (hits[i].tri_id < 0) in process_shadow_rays
ShadowApplies(tri_id) == tri_id < 0

InitPass ==
    /\ ppc = "fill"
    /\ in_queue = 0
    /\ primary_rays_ = [q \in {0, 1} |-> <<>>]
    /\ shadow_rays_ = <<>>
    /\ next_pixel_ = 0
    /\ p_todo = {}
    /\ p_img = [p \in PassPixelSet |-> 0]
    /\ light_path_len \in 0..MaxLightVerts
    /\ traversed = <<>>
    /\ processed = <<>>
    /\ InitQueueIdle
    /\ InitImageIdle
    /\ InitRenderIdle
    /\ InitBounceIdle
    /\ InitNewIdle

\* camera.fill_queue(primary_rays_[in_queue]);
FillQueue ==
    /\ ppc = "fill"
    /\ LET q == primary_rays_[in_queue]
           count == FillCount(next_pixel_, Len(q))
       IN /\ primary_rays_' = [primary_rays_ EXCEPT ![in_queue] =
                    q \o GenRays(next_pixel_, count, Len(processed) + 1)]
          /\ next_pixel_' = next_pixel_ + count
          /\ traversed' = traversed \o Zeros(count)
          /\ processed' = processed \o Zeros(count)
    /\ ppc' = "check"
    /\ UNCHANGED <<in_queue, shadow_rays_, p_todo, p_img, light_path_len>>
    /\ UNCHANGED nonpass

\* if (primary_rays_[in_queue].size() <= 0) break;
CheckBreak ==
    /\ ppc = "check"
    /\ ppc' = IF BreakCond THEN "done" ELSE "traverse"
    /\ UNCHANGED <<in_queue, primary_rays_, shadow_rays_, next_pixel_, p_todo,
                   p_img, light_path_len, traversed, processed>>
    /\ UNCHANGED nonpass

\* primary_rays_[in_queue].traverse(scene_): every ray gets a hit or a miss
Traverse ==
    /\ ppc = "traverse"
    /\ LET q == primary_rays_[in_queue] IN
        /\ Len(q) # 0
        /\ \E h \in [1..Len(q) -> {-1, 0}] :
            primary_rays_' = [primary_rays_ EXCEPT ![in_queue] =
                [k \in 1..Len(q) |-> [q[k] EXCEPT !.tri_id = h[k]]]]
        /\ traversed' = [k \in 1..Len(traversed) |->
                IF \E j \in 1..Len(q) : q[j].id = k
                THEN traversed[k] + 1 ELSE traversed[k]]
        /\ p_todo' = 1..Len(q)
    /\ ppc' = "process"
    /\ UNCHANGED <<in_queue, shadow_rays_, next_pixel_, p_img, light_path_len,
                   processed>>
    /\ UNCHANGED nonpass

\* the shadow rays one camera hit pushes: direct_illum pushes one, connect one
\* for every vertex of the light path of the pixel
HitShadowRays(st, thr) ==
    [k \in 1..(1 + light_path_len) |->
        [pixel_id |-> st.pixel_id, throughput |-> thr, tri_id |-> -2]]

\* bounce: the continuation ray, the k-th ray created
Continuation(st, k) ==
    [st EXCEPT !.id = k, !.path_length = st.path_length + 1, !.tri_id = -2]

\* process_camera_rays: one iteration of the parallel loop
ProcessHit(i) ==
    /\ ppc = "process"
    /\ i \in p_todo
    /\ p_todo' = p_todo \ {i}
    /\ LET st == primary_rays_[in_queue][i]
           visited == [processed EXCEPT ![st.id] = processed[st.id] + 1]
       IN
        IF st.tri_id < 0
        THEN \* if (hits[i].tri_id < 0) continue;
             /\ processed' = visited
             /\ UNCHANGED <<primary_rays_, shadow_rays_, p_img, traversed>>
        ELSE \E is_light \in BOOLEAN, thr \in 1..MaxThroughput,
                rr_accept \in BOOLEAN :
                \* if (isect.mat->light()) img.pixels()[pixel_id] += ...
             /\ p_img' = IF is_light
                         THEN [p_img EXCEPT ![st.pixel_id] = @ + 1]
                         ELSE p_img
                \* direct_illum(...); connect(...);
             /\ shadow_rays_' = shadow_rays_ \o HitShadowRays(st, thr)
                \* bounce(..., MAX_CAMERA_PATH_LEN)
             /\ IF st.path_length >= MaxCameraPathLen \/ ~rr_accept
                THEN /\ processed' = visited
                     /\ UNCHANGED <<primary_rays_, traversed>>
                ELSE /\ primary_rays_' = [primary_rays_ EXCEPT ![out_queue] =
                            Append(@, Continuation(st, Len(processed) + 1))]
                     /\ traversed' = Append(traversed, 0)
                     /\ processed' = Append(visited, 0)
    /\ UNCHANGED <<ppc, in_queue, next_pixel_, light_path_len>>
    /\ UNCHANGED nonpass

ClearQueue_keep(q) == q

\* clear(): last_ = -1, the queue holds no entry any more
ClearQueue(q) == <<>>

\* primary_rays_[in_queue].clear();
ClearIn ==
    /\ ppc = "process"
    /\ p_todo = {}
    /\ primary_rays_' = [primary_rays_ EXCEPT ![in_queue] = ClearQueue(@)]
    /\ ppc' = "shadow_check"
    /\ UNCHANGED <<in_queue, shadow_rays_, next_pixel_, p_todo, p_img,
                   light_path_len, traversed, processed>>
    /\ UNCHANGED nonpass

\* if (shadow_rays_.size() > 0) { ... }
ShadowCheck ==
    /\ ppc = "shadow_check"
    /\ ppc' = IF Len(shadow_rays_) > 0 THEN "shadow_traverse" ELSE "swap"
    /\ UNCHANGED <<in_queue, primary_rays_, shadow_rays_, next_pixel_, p_todo,
                   p_img, light_path_len, traversed, processed>>
    /\ UNCHANGED nonpass

\* shadow_rays_.traverse_occluded(scene_): tri_id < 0 for an unoccluded ray
TraverseOccluded ==
    /\ ppc = "shadow_traverse"
    /\ Len(shadow_rays_) # 0
    /\ \E h \in [1..Len(shadow_rays_) -> {-1, 0}] :
        shadow_rays_' = [k \in 1..Len(shadow_rays_) |->
                            [shadow_rays_[k] EXCEPT !.tri_id = h[k]]]
    /\ ppc' = "shadow_process"
    /\ UNCHANGED <<in_queue, primary_rays_, next_pixel_, p_todo, p_img,
                   light_path_len, traversed, processed>>
    /\ UNCHANGED nonpass

\* process_shadow_rays: the sequential loop over i = 0 .. ray_count - 1,
\* here from index k of the queue to its end
RECURSIVE ApplyShadowRays(_, _, _)
ApplyShadowRays(img, rays, k) ==
    IF k > Len(rays) THEN img
    ELSE ApplyShadowRays(
            IF ShadowApplies(rays[k].tri_id)
            THEN [img EXCEPT ![rays[k].pixel_id] = @ + rays[k].throughput]
            ELSE img,
            rays, k + 1)

\* process_shadow_rays(shadow_rays_, img);
ProcessShadowRays ==
    /\ ppc = "shadow_process"
    /\ p_img' = ApplyShadowRays(p_img, shadow_rays_, 1)
    /\ ppc' = "shadow_clear"
    /\ UNCHANGED <<in_queue, primary_rays_, shadow_rays_, next_pixel_, p_todo,
                   light_path_len, traversed, processed>>
    /\ UNCHANGED nonpass

\* shadow_rays_.clear();
ShadowClear ==
    /\ ppc = "shadow_clear"
    /\ shadow_rays_' = ClearQueue(shadow_rays_)
    /\ ppc' = "swap"
    /\ UNCHANGED <<in_queue, primary_rays_, next_pixel_, p_todo, p_img,
                   light_path_len, traversed, processed>>
    /\ UNCHANGED nonpass

\* std::swap(in_queue, out_queue);
SwapQueues ==
    /\ ppc = "swap"
    /\ in_queue' = out_queue
    /\ ppc' = "fill"
    /\ UNCHANGED <<primary_rays_, shadow_rays_, next_pixel_, p_todo, p_img,
                   light_path_len, traversed, processed>>
    /\ UNCHANGED nonpass

NextPass ==
    \/ FillQueue
    \/ CheckBreak
    \/ Traverse
    \/ \E i \in p_todo : ProcessHit(i)
    \/ ClearIn
    \/ ShadowCheck
    \/ TraverseOccluded
    \/ ProcessShadowRays
    \/ ShadowClear
    \/ SwapQueues

SpecPass == InitPass /\ [][NextPass]_vars

RECURSIVE UnoccludedSum(_, _, _)
UnoccludedSum(rays, S, p) ==
    IF S = {} THEN 0
    ELSE LET k == CHOOSE x \in S : TRUE IN
         (IF rays[k].tri_id < 0 /\ rays[k].pixel_id = p
          THEN rays[k].throughput ELSE 0) + UnoccludedSum(rays, S \ {k}, p)

\* C4: process_shadow_rays adds exactly the stored throughput of every
\* unoccluded shadow ray (tri_id < 0) to its pixel and nothing for an occluded
\* one; the shadow rays an iteration produced are traversed, applied and
\* cleared before the next iteration starts.
C4_ShadowRaysApplied ==
    /\ [][ppc = "shadow_process" =>
            \A p \in PassPixelSet :
                p_img'[p] = p_img[p]
                    + UnoccludedSum(shadow_rays_, 1..Len(shadow_rays_), p)]_vars
    /\ [](ppc \in {"fill", "check", "traverse", "done"} => shadow_rays_ = <<>>)
    /\ [](ppc \in {"shadow_process", "shadow_clear"} =>
            \A k \in 1..Len(shadow_rays_) : shadow_rays_[k].tri_id # -2)

\* C4 witness: a batch holding an occluded and an unoccluded shadow ray has
\* been applied to the image.
C4_Witness ==
    /\ ppc = "shadow_clear"
    /\ \E j, k \in 1..Len(shadow_rays_) :
        /\ shadow_rays_[j].tri_id < 0
        /\ shadow_rays_[k].tri_id >= 0
        /\ shadow_rays_[j].pixel_id = shadow_rays_[k].pixel_id
        /\ p_img[shadow_rays_[j].pixel_id] >= shadow_rays_[j].throughput

(***************************************************************************)
(* render() of the integrators.                                            *)
(***************************************************************************)
DeferredMis == {"MisVCM", "MisBPT", "MisPT", "MisLT", "MisTWPT", "MisSPPM"}

\* the integrators of the three files and their template arguments
Integrators ==
    {[NoIntegrator EXCEPT !.kind = "DeferredVCM", !.mis = m] : m \in DeferredMis}
    \cup {[kind |-> "VCMIntegrator", mis |-> "none", bpt_only |-> b,
           ppm_only |-> p, lt_only |-> l, pt_only |-> t] :
             b \in BOOLEAN, p \in BOOLEAN, l \in BOOLEAN, t \in BOOLEAN}
    \cup {[NoIntegrator EXCEPT !.kind = "BidirPathTracer"]}

\* the statements of DeferredVCM<MisType>::render, in program order
DeferredRender(mis) ==
    CASE mis = "MisVCM" ->
            <<"inc", "clear", "trace_cam", "trace_light",
              "async_m", "async_pt", "async_lt", "async_conn",
              "wait_pt", "wait_lt", "wait_conn", "wait_m">>
      [] mis = "MisBPT" ->
            <<"clear", "trace_cam", "trace_light", "pt", "lt", "conn">>
      [] mis = "MisPT" -> <<"clear", "trace_cam", "pt">>
      [] mis = "MisLT" -> <<"clear", "trace_light", "lt">>
      [] mis = "MisTWPT" ->
            <<"clear", "trace_cam", "trace_light", "pt", "lt">>
      [] mis = "MisSPPM" ->
            <<"inc", "clear", "trace_cam", "trace_light", "build", "pt",
              "merge">>

\* the statements of VCMIntegrator::render; trace_light_paths ends with the
\* build of the photon grid
VCMRender(integ) ==
    <<"reset", "inc">>
    \o (IF ~integ.pt_only THEN <<"trace_light", "build">> ELSE <<>>)
    \o (IF ~integ.lt_only THEN <<"camera_pass">> ELSE <<>>)

\* the statements of BidirPathTracer::render
BPTRender == <<"reset", "trace_light", "camera_pass">>

RenderBody ==
    CASE integrator.kind = "DeferredVCM" -> DeferredRender(integrator.mis)
      [] integrator.kind = "VCMIntegrator" -> VCMRender(integrator)
      [] integrator.kind = "BidirPathTracer" -> BPTRender
      [] OTHER -> <<>>

\* the statement the calling thread executes next
Step == IF rpc \in 1..Len(RenderBody) THEN RenderBody[rpc] ELSE "none"

Tags(cache) == {cache[k] : k \in 1..Len(cache)}

ClearCache_off(cache) == cache

\* cam_verts_->clear(); light_verts_->clear(); light_paths_.reset();
ClearCache(cache) == <<>>

\* reset_buffers: if (!lt_only) light_paths_.reset();
ResetsLightPaths ==
    integrator.kind = "BidirPathTracer"
    \/ (integrator.kind = "VCMIntegrator" /\ ~integrator.lt_only)

\* process_light_rays: if (!lt_only) light_paths_.append(...)
StoresLightVertices ==
    integrator.kind # "VCMIntegrator" \/ ~integrator.lt_only

\* the cached vertices a technique pass reads
PassReads(pass) ==
    CASE pass = "pt" -> Tags(cam_verts_)
      [] pass = "lt" -> Tags(light_verts_)
      [] pass = "conn" -> Tags(cam_verts_) \cup Tags(light_verts_)
      [] pass = "merge" -> Tags(cam_verts_) \cup Tags(photon_grid_)

\* process_camera_rays of vcm.cpp and bpt.cpp: connect reads light_paths_,
\* vertex_merging queries the photon grid
CameraPassReads ==
    (IF integrator.kind = "BidirPathTracer" \/ ~integrator.pt_only
     THEN Tags(light_verts_) ELSE {})
    \cup
    (IF integrator.kind = "VCMIntegrator"
        /\ (integrator.ppm_only \/ ~integrator.bpt_only)
     THEN Tags(photon_grid_) ELSE {})

Waited_off(t) == TRUE

\* future.wait() returns once the task has finished
Waited(t) == task[t] = "done"

InitRender ==
    /\ \E integ \in Integrators : InitRenderAt(integ)
    /\ InitQueueIdle
    /\ InitImageIdle
    /\ InitPassIdle
    /\ InitBounceIdle
    /\ InitNewIdle

\* a call of render(img)
RenderCall ==
    /\ rpc = 0
    /\ iteration < MaxIter
    /\ rpc' = 1
    /\ iteration' = iteration + 1
    /\ dropped' = 0
    /\ last_read' = {}
    /\ UNCHANGED <<integrator, cur_iteration_, cam_verts_, light_verts_,
                   photon_grid_, grid_built, n_added, cam_traced, light_traced,
                   task>>
    /\ UNCHANGED nonrender

\* cur_iteration_++;
IncIteration ==
    /\ Step = "inc"
    /\ cur_iteration_' = cur_iteration_ + 1
    /\ rpc' = rpc + 1
    /\ UNCHANGED <<integrator, iteration, cam_verts_, light_verts_,
                   photon_grid_, grid_built, n_added, cam_traced, light_traced,
                   task, dropped, last_read>>
    /\ UNCHANGED nonrender

\* cam_verts_->clear(); light_verts_->clear();
ClearCaches ==
    /\ Step = "clear"
    /\ cam_verts_' = ClearCache(cam_verts_)
    /\ light_verts_' = ClearCache(light_verts_)
    /\ dropped' = dropped + (Len(cam_verts_) - Len(cam_verts_'))
                          + (Len(light_verts_) - Len(light_verts_'))
    /\ rpc' = rpc + 1
    /\ UNCHANGED <<integrator, iteration, cur_iteration_, photon_grid_,
                   grid_built, n_added, cam_traced, light_traced, task,
                   last_read>>
    /\ UNCHANGED nonrender

\* reset_buffers();
ResetBuffers ==
    /\ Step = "reset"
    /\ light_verts_' = IF ResetsLightPaths THEN ClearCache(light_verts_)
                       ELSE light_verts_
    /\ dropped' = dropped + (Len(light_verts_) - Len(light_verts_'))
    /\ rpc' = rpc + 1
    /\ UNCHANGED <<integrator, iteration, cur_iteration_, cam_verts_,
                   photon_grid_, grid_built, n_added, cam_traced, light_traced,
                   task, last_read>>
    /\ UNCHANGED nonrender

\* trace_camera_paths / trace_light_paths: a hit stores a vertex
TraceStore ==
    /\ Step \in {"trace_cam", "trace_light"}
    /\ n_added < MaxVerts
    /\ n_added' = n_added + 1
    /\ IF Step = "trace_cam"
       THEN /\ cam_verts_' = Append(cam_verts_, iteration)
            /\ UNCHANGED light_verts_
       ELSE /\ StoresLightVertices
            /\ light_verts_' = Append(light_verts_, iteration)
            /\ UNCHANGED cam_verts_
    /\ UNCHANGED <<integrator, rpc, iteration, cur_iteration_, photon_grid_,
                   grid_built, cam_traced, light_traced, task, dropped,
                   last_read>>
    /\ UNCHANGED nonrender

\* trace_camera_paths / trace_light_paths: the pass returns
TraceReturn ==
    /\ Step \in {"trace_cam", "trace_light"}
    /\ n_added' = 0
    /\ cam_traced' = IF Step = "trace_cam" THEN iteration ELSE cam_traced
    /\ light_traced' = IF Step = "trace_light" THEN iteration ELSE light_traced
    /\ rpc' = rpc + 1
    /\ UNCHANGED <<integrator, iteration, cur_iteration_, cam_verts_,
                   light_verts_, photon_grid_, grid_built, task, dropped,
                   last_read>>
    /\ UNCHANGED nonrender

\* photon_grid_.build(light_verts_->begin(), light_verts_->end(), pm_radius_)
\* called by the thread of render()
BuildGrid ==
    /\ Step = "build"
    /\ photon_grid_' = light_verts_
    /\ grid_built' = iteration
    /\ rpc' = rpc + 1
    /\ UNCHANGED <<integrator, iteration, cur_iteration_, cam_verts_,
                   light_verts_, n_added, cam_traced, light_traced, task,
                   dropped, last_read>>
    /\ UNCHANGED nonrender

\* path_tracing(img, true); light_tracing(img); connect(img); merge(img);
\* called by the thread of render()
SeqPass ==
    /\ Step \in {"pt", "lt", "conn", "merge"}
    /\ last_read' = PassReads(Step)
    /\ rpc' = rpc + 1
    /\ UNCHANGED <<integrator, iteration, cur_iteration_, cam_verts_,
                   light_verts_, photon_grid_, grid_built, n_added, cam_traced,
                   light_traced, task, dropped>>
    /\ UNCHANGED nonrender

\* trace_camera_paths(img) of vcm.cpp and bpt.cpp
CameraPass ==
    /\ Step = "camera_pass"
    /\ last_read' = CameraPassReads
    /\ cam_traced' = iteration
    /\ rpc' = rpc + 1
    /\ UNCHANGED <<integrator, iteration, cur_iteration_, cam_verts_,
                   light_verts_, photon_grid_, grid_built, n_added,
                   light_traced, task, dropped>>
    /\ UNCHANGED nonrender

\* auto t = std::async(std::launch::async, ...): the task starts to run
Launch(t) ==
    /\ Step = "async_" \o t
    /\ task' = [task EXCEPT ![t] = IF t = "m" THEN "build" ELSE "run"]
    /\ rpc' = rpc + 1
    /\ UNCHANGED <<integrator, iteration, cur_iteration_, cam_verts_,
                   light_verts_, photon_grid_, grid_built, n_added, cam_traced,
                   light_traced, dropped, last_read>>
    /\ UNCHANGED nonrender

\* task m: photon_grid_.build(...)
TaskBuild ==
    /\ task["m"] = "build"
    /\ photon_grid_' = light_verts_
    /\ grid_built' = iteration
    /\ task' = [task EXCEPT !["m"] = "merge"]
    /\ UNCHANGED <<integrator, rpc, iteration, cur_iteration_, cam_verts_,
                   light_verts_, n_added, cam_traced, light_traced, dropped,
                   last_read>>
    /\ UNCHANGED nonrender

\* task m: merge(img); tasks pt, lt, conn: their technique pass
TaskPass(t) ==
    /\ task[t] = (IF t = "m" THEN "merge" ELSE "run")
    /\ last_read' = PassReads(IF t = "m" THEN "merge" ELSE t)
    /\ task' = [task EXCEPT ![t] = "done"]
    /\ UNCHANGED <<integrator, rpc, iteration, cur_iteration_, cam_verts_,
                   light_verts_, photon_grid_, grid_built, n_added, cam_traced,
                   light_traced, dropped>>
    /\ UNCHANGED nonrender

\* pt.wait(); lt.wait(); conn.wait(); m.wait();
Wait(t) ==
    /\ Step = "wait_" \o t
    /\ Waited(t)
    /\ rpc' = rpc + 1
    /\ UNCHANGED <<integrator, iteration, cur_iteration_, cam_verts_,
                   light_verts_, photon_grid_, grid_built, n_added, cam_traced,
                   light_traced, task, dropped, last_read>>
    /\ UNCHANGED nonrender

\* render returns; the futures of the tasks go out of scope
RenderReturn ==
    /\ rpc = Len(RenderBody) + 1
    /\ rpc' = 0
    /\ task' = [t \in Tasks |-> "none"]
    /\ UNCHANGED <<integrator, iteration, cur_iteration_, cam_verts_,
                   light_verts_, photon_grid_, grid_built, n_added, cam_traced,
                   light_traced, dropped, last_read>>
    /\ UNCHANGED nonrender

NextRender ==
    \/ RenderCall
    \/ IncIteration
    \/ ClearCaches
    \/ ResetBuffers
    \/ TraceStore
    \/ TraceReturn
    \/ BuildGrid
    \/ SeqPass
    \/ CameraPass
    \/ \E t \in Tasks : Launch(t)
    \/ TaskBuild
    \/ \E t \in Tasks : TaskPass(t)
    \/ \E t \in Tasks : Wait(t)
    \/ RenderReturn

SpecRender == InitRender /\ [][NextRender]_vars

\* C6: in DeferredVCM<MisVCM>::render a technique pass runs only after both
\* trace passes of this render() call have returned; merge queries a photon
\* grid built in this call from the light vertex cache; while a pass is
\* running no vertex cache changes; render returns only when all four passes
\* have finished.
C6_DeferredVCMOrdering ==
    /\ [](\A t \in Tasks : task[t] # "none" =>
            cam_traced = iteration /\ light_traced = iteration)
    /\ [](task["m"] \in {"merge", "done"} =>
            grid_built = iteration /\ photon_grid_ = light_verts_)
    /\ [][(\E t \in Tasks : task[t] # "none") =>
            UNCHANGED <<cam_verts_, light_verts_>>]_vars
    /\ [][(integrator.kind = "DeferredVCM" /\ integrator.mis = "MisVCM"
           /\ rpc # 0 /\ rpc' = 0) =>
            \A t \in Tasks : task[t] = "done"]_vars

\* C6 witness: all four passes of a DeferredVCM<MisVCM>::render call have
\* finished, merge has queried a grid that holds a vertex, render is about to
\* return.
C6_Witness ==
    /\ integrator.kind = "DeferredVCM" /\ integrator.mis = "MisVCM"
    /\ rpc = Len(RenderBody) + 1
    /\ \A t \in Tasks : task[t] = "done"
    /\ photon_grid_ # <<>>
    /\ cam_verts_ # <<>>

\* C7: every cached vertex a technique pass reads, and every vertex the photon
\* grid is built from, was stored in the current render() call; once render
\* is past its clear / reset statement the caches hold no older vertex.
C7_VerticesLiveOneIteration ==
    /\ \A v \in last_read : v = iteration
    /\ grid_built = iteration => \A v \in Tags(photon_grid_) : v = iteration
    /\ Step \notin {"none", "inc", "clear", "reset"} =>
        \A v \in Tags(cam_verts_) \cup Tags(light_verts_) : v = iteration

\* C7 witness: a later render() call has removed vertices of the call before
\* and a pass has read the vertices stored since.
C7_Witness ==
    /\ iteration > 1
    /\ dropped > 0
    /\ last_read = {iteration}
(***************************************************************************)
(* Arithmetic of the floats of a path state.                               *)
(***************************************************************************)
RECURSIVE GCD(_, _)
GCD(a, b) == IF b = 0 THEN a ELSE GCD(b, a % b)

\* a value that is not finite: the result of a division by zero
NonFinite == [n |-> 1, d |-> 0]

\* the float n / d
Rat(n, d) ==
    IF d = 0 THEN NonFinite
    ELSE [n |-> n \div GCD(n, d), d |-> d \div GCD(n, d)]

Zero == Rat(0, 1)

One == Rat(1, 1)

IsFinite(a) == a.d # 0

\* a * b
RMul(a, b) ==
    IF IsFinite(a) /\ IsFinite(b) THEN Rat(a.n * b.n, a.d * b.d) ELSE NonFinite

\* a + b
RAdd(a, b) ==
    IF IsFinite(a) /\ IsFinite(b) THEN Rat(a.n * b.d + b.n * a.d, a.d * b.d)
    ELSE NonFinite

\* a / b
RDiv(a, b) ==
    IF IsFinite(a) /\ IsFinite(b) THEN Rat(a.n * b.d, a.d * b.n) ELSE NonFinite

\* the values the inputs of one hit are drawn from
Fracs == {Rat(k, MaxDenom) : k \in 0..MaxDenom}

PosFracs == Fracs \ {Zero}

mis_heuristic_sq(a) == RMul(a, a)

\* inline float mis_heuristic(float a) { return a; }
mis_heuristic(a) == a

\* mis_heuristic_bpt: the balance heuristic
mis_heuristic_bpt(a) == a

\* mis_weight_vc_ = mis_heuristic(1.0f / etaVCM);
mis_weight_vc_ == mis_heuristic(RDiv(One, b_eta))

\* if (!bpt_only) mis_weight_vm_ = mis_heuristic(etaVCM); else 0.0f
mis_weight_vm_ == IF ~b_integ.bpt_only THEN mis_heuristic(b_eta) ELSE Zero

\* const int max_recursion = 32;
max_recursion == 32

(***************************************************************************)
(* The integrators, the path states and the samples of one hit.            *)
(***************************************************************************)
BounceIntegrators ==
    {[NoIntegrator EXCEPT !.kind = k] :
        k \in {"PathTracer", "BidirPathTracer", "DeferredVCM", "Probe"}}
    \cup {[kind |-> "VCMIntegrator", mis |-> "none", bpt_only |-> b,
           ppm_only |-> p, lt_only |-> FALSE, pt_only |-> FALSE] :
             b \in BOOLEAN, p \in BOOLEAN}

\* the path states a hit is processed with; dVM exists in VCMState only
BounceStates(integ) ==
    [throughput : {One}, path_length : 1..MaxCameraPathLen,
     continue_prob : {One}, dVCM : Fracs, dVC : Fracs,
     dVM : IF integ.kind \in {"VCMIntegrator", "DeferredVCM"}
           THEN Fracs ELSE {Zero},
     bounces : {0}, last_specular : {FALSE}]

\* russian_roulette(throughput, rnd, rr_pdf): its result and rr_pdf
Roulette == [accept : BOOLEAN, rr_pdf : PosFracs]

\* bsdf->sample(...): the kind of the component sampled ("none": no
\* component matches the flags, sampled_flags == 0), pdf_dir_w, the result of
\* bsdf->pdf(sample_dir, out_dir), |dot(sample_dir, normal)| and whether the
\* value returned is black
Samples(kinds) ==
    {sm \in [kind : kinds, pdf_dir_w : Fracs, pdf_rev_w : Fracs,
             cos_theta_i : PosFracs, black : BOOLEAN] :
        /\ sm.kind = "none" =>
            sm.pdf_dir_w = Zero /\ sm.black /\ sm.cos_theta_i = One
        /\ sm.kind # "diffuse" => sm.pdf_rev_w = Zero
        /\ sm.kind = "diffuse" => sm.pdf_rev_w # Zero}

\* BSDF_ALL
AllKinds == {"none", "specular", "diffuse"}

\* BSDF_SPECULAR | BSDF_REFLECTION | BSDF_TRANSMISSION
SpecularKinds == {"none", "specular"}

\* the components of a material: sample_material of pt.cpp, BSDF::sample of
\* deferred_vcm.cpp always return a sampled component
MaterialKinds == {"specular", "diffuse"}

\* is_black(bsdf_value) ? 0 : a value that is not black
BsdfValue(sm) == IF sm.black THEN Zero ELSE One

\* the result of a bounce that returns without a continuation
Returned(state, sampled) == [pushed |-> FALSE, sampled |-> sampled, s |-> state]

\* the result of a bounce that continues the path with state s
Pushed(s) == [pushed |-> TRUE, sampled |-> TRUE, s |-> s]

(***************************************************************************)
(* The bounce functions.                                                   *)
(***************************************************************************)
AtMaxLength_off(path_length, max_length) == FALSE

\* if (state.path_length >= max_length) return;
AtMaxLength(path_length, max_length) == path_length >= max_length

\* VCMIntegrator::bounce(state, isect, bsdf, rays_out, adjoint, max_length);
\* the normal and the geometry normal of the hit coincide, so both cosine
\* terms are |dot(sample_dir, normal)|
VCMBounce(state, sm, rr, adjoint, max_length) ==
    IF AtMaxLength(state.path_length, max_length) THEN Returned(state, FALSE)
    ELSE IF ~rr.accept THEN Returned(state, FALSE)
    ELSE IF (b_integ.ppm_only /\ sm.kind = "none")
            \/ sm.pdf_dir_w = Zero \/ sm.black
    THEN Returned(state, TRUE)
    ELSE
    LET is_specular == sm.kind = "specular"
        pdf_rev_w == IF is_specular THEN sm.pdf_dir_w ELSE sm.pdf_rev_w
        cos_theta_i == sm.cos_theta_i
        rp == RMul(sm.pdf_dir_w, rr.rr_pdf)
        s == IF is_specular
             THEN [state EXCEPT
                    !.dVCM = Zero,
                    !.dVC = RMul(state.dVC, mis_heuristic(cos_theta_i)),
                    !.dVM = RMul(state.dVM, mis_heuristic(cos_theta_i))]
             ELSE [state EXCEPT
                    !.dVC = RMul(mis_heuristic(RDiv(cos_theta_i, rp)),
                                 RAdd(RAdd(RMul(state.dVC,
                                        mis_heuristic(RMul(pdf_rev_w, rr.rr_pdf))),
                                      state.dVCM), mis_weight_vm_)),
                    !.dVM = RMul(mis_heuristic(RDiv(cos_theta_i, rp)),
                                 RAdd(RAdd(RMul(state.dVM,
                                        mis_heuristic(RMul(pdf_rev_w, rr.rr_pdf))),
                                      state.dVCM), mis_weight_vc_)),
                    !.dVCM = mis_heuristic(RDiv(One, rp))]
    IN Pushed([s EXCEPT
                !.throughput = RDiv(RMul(RMul(s.throughput, BsdfValue(sm)),
                                         cos_theta_i),
                                    RMul(rr.rr_pdf, sm.pdf_dir_w)),
                !.path_length = s.path_length + 1,
                !.continue_prob = rr.rr_pdf])

\* bounce(state, isect, bsdf, rays_out, adjoint, max_length) of bpt.cpp
BPTBounce(state, sm, rr, adjoint, max_length) ==
    IF AtMaxLength(state.path_length, max_length) THEN Returned(state, FALSE)
    ELSE IF ~rr.accept THEN Returned(state, FALSE)
    ELSE
    LET is_specular == sm.kind = "specular"
        pdf_rev_w == IF is_specular THEN sm.pdf_dir_w ELSE sm.pdf_rev_w
        cos_theta_i == sm.cos_theta_i
        rp == RMul(sm.pdf_dir_w, rr.rr_pdf)
        s == IF is_specular
             THEN [state EXCEPT
                    !.dVCM = Zero,
                    !.dVC = RMul(state.dVC, mis_heuristic_bpt(cos_theta_i))]
             ELSE [state EXCEPT
                    !.dVC = RMul(mis_heuristic_bpt(RDiv(cos_theta_i, rp)),
                                 RAdd(RMul(state.dVC,
                                        mis_heuristic_bpt(RMul(pdf_rev_w,
                                                               rr.rr_pdf))),
                                      state.dVCM)),
                    !.dVCM = mis_heuristic_bpt(RDiv(One, rp))]
    IN Pushed([s EXCEPT
                !.throughput = RDiv(RMul(RMul(s.throughput, BsdfValue(sm)),
                                         cos_theta_i),
                                    RMul(rr.rr_pdf, sm.pdf_dir_w)),
                !.path_length = s.path_length + 1,
                !.continue_prob = rr.rr_pdf])

\* PathTracer::process_primary_rays, "Continue the path using russian
\* roulette": rr.rr_pdf is rrprob, rr.accept is u_rr < rrprob
PTBounce(state, sm, rr) ==
    IF ~(rr.accept /\ state.bounces < max_recursion)
    THEN Returned(state, FALSE)
    ELSE Pushed([state EXCEPT
            !.throughput = RMul(RMul(state.throughput, BsdfValue(sm)),
                                RDiv(sm.cos_theta_i,
                                     RMul(rr.rr_pdf, sm.pdf_dir_w))),
            !.bounces = state.bounces + 1,
            !.last_specular = (sm.kind = "specular")])

\* MisVCM::update_bounce: the recurrences of the partial weights, with the
\* arguments DeferredVCM::bounce passes
update_bounce(state, pdf_dir_w, pdf_rev_w, cos_theta_i, specular) ==
    IF specular
    THEN [state EXCEPT !.dVCM = Zero,
                       !.dVC = RMul(state.dVC, cos_theta_i),
                       !.dVM = RMul(state.dVM, cos_theta_i)]
    ELSE [state EXCEPT
            !.dVC = RMul(RDiv(cos_theta_i, pdf_dir_w),
                         RAdd(RAdd(RMul(state.dVC, pdf_rev_w), state.dVCM),
                              b_eta)),
            !.dVM = RMul(RDiv(cos_theta_i, pdf_dir_w),
                         RAdd(RAdd(RMul(state.dVM, pdf_rev_w),
                                   RMul(state.dVCM, RDiv(One, b_eta))), One)),
            !.dVCM = RDiv(One, pdf_dir_w)]

\* DeferredVCM::bounce(state, isect, bsdf, ray, adjoint, offset); the state
\* is updated in place, adjoint_correction is 1 where the normals coincide
DeferredBounce(state, sm, rr, max_path_len) ==
    IF AtMaxLength(state.path_length, max_path_len)
    THEN Returned(state, FALSE)
    ELSE IF ~rr.accept THEN Returned(state, FALSE)
    ELSE IF sm.pdf_dir_w = Zero \/ sm.black THEN Returned(state, TRUE)
    ELSE
    LET specular == sm.kind = "specular"
        pdf_rev_w == IF specular THEN Zero ELSE sm.pdf_rev_w
        t == [state EXCEPT
                !.throughput = RMul(RDiv(RMul(state.throughput, BsdfValue(sm)),
                                         rr.rr_pdf), One)]
    IN Pushed(update_bounce(t, sm.pdf_dir_w, pdf_rev_w, sm.cos_theta_i,
                            specular))

\* bounce(scene, r, h, s, vertex_count) of deferred_vertices.cpp
ProbeBounce(state, sm, rr) ==
    IF ~rr.accept THEN Returned(state, FALSE)
    ELSE IF sm.pdf_dir_w = Zero \/ sm.black THEN Returned(state, TRUE)
    ELSE Pushed([state EXCEPT
            !.throughput = RDiv(RMul(state.throughput, BsdfValue(sm)),
                                rr.rr_pdf)])

\* the record of one call of bounce
Call(state, sm, rr, res) ==
    [st |-> state, sm |-> sm, rr |-> rr, pushed |-> res.pushed,
     sampled |-> res.sampled, s |-> res.s]

(***************************************************************************)
(* One call of bounce for a path state.                                    *)
(***************************************************************************)
InitBounceAt(integ, eta, state) ==
    /\ b_integ = integ
    /\ b_eta = eta
    /\ b_pc = "hit"
    /\ b_state = state
    /\ b_hit = [miss |-> TRUE, mat_specular |-> FALSE, light |-> FALSE]
    /\ b_calls = <<>>
    /\ b_rays_out = <<>>
    /\ b_shadow = <<>>
    /\ b_image = <<>>
    /\ b_alive = TRUE
    /\ b_vertex_count = 0
    /\ InitQueueIdle
    /\ InitImageIdle
    /\ InitPassIdle
    /\ InitRenderIdle
    /\ InitNewIdle

InitBounce ==
    \E integ \in BounceIntegrators :
        \E eta \in (IF integ.kind \in {"VCMIntegrator", "DeferredVCM"}
                    THEN PosFracs ELSE {One}) :
            \E state \in BounceStates(integ) : InitBounceAt(integ, eta, state)

\* the call returns: its record is kept and a continuation is pushed
BounceDone(sm, rr, res) ==
    /\ b_calls' = Append(b_calls, Call(b_state, sm, rr, res))
    /\ b_rays_out' = IF res.pushed THEN Append(b_rays_out, res.s)
                     ELSE b_rays_out
    /\ b_pc' = "done"
    /\ UNCHANGED <<b_integ, b_eta, b_state, b_hit, b_shadow, b_image>>
    /\ UNCHANGED nonbounce

\* pt.cpp: the continuation of a hit in process_primary_rays
PTBounceCall ==
    /\ b_pc = "hit"
    /\ b_integ.kind = "PathTracer"
    /\ \E sm \in Samples(MaterialKinds), rr \in Roulette :
        BounceDone(sm, rr, PTBounce(b_state, sm, rr))
    /\ UNCHANGED <<b_alive, b_vertex_count>>

\* bpt.cpp: bounce(states[i], isect, bsdf, rays_out, adjoint, MAX_..._PATH_LEN)
BPTBounceCall ==
    /\ b_pc = "hit"
    /\ b_integ.kind = "BidirPathTracer"
    /\ \E adjoint \in BOOLEAN, sm \in Samples(AllKinds), rr \in Roulette :
        BounceDone(sm, rr,
                   BPTBounce(b_state, sm, rr, adjoint, MaxCameraPathLen))
    /\ UNCHANGED <<b_alive, b_vertex_count>>

\* vcm.cpp: bounce(states[i], isect, bsdf, rays_out, adjoint, MAX_..._PATH_LEN);
\* if (ppm_only && !adjoint) flags = BSDF_SPECULAR | ...
VCMBounceCall ==
    /\ b_pc = "hit"
    /\ b_integ.kind = "VCMIntegrator"
    /\ \E adjoint \in BOOLEAN, rr \in Roulette :
        \E sm \in Samples(IF b_integ.ppm_only /\ ~adjoint
                          THEN SpecularKinds ELSE AllKinds) :
            BounceDone(sm, rr,
                       VCMBounce(b_state, sm, rr, adjoint, MaxCameraPathLen))
    /\ UNCHANGED <<b_alive, b_vertex_count>>

\* deferred_vcm.cpp: bounce(state, isect, &mat.bsdf, r, false, offset);
\* every return without a new ray calls terminate_path(state)
DeferredBounceCall ==
    /\ b_pc = "hit"
    /\ b_integ.kind = "DeferredVCM"
    /\ \E sm \in Samples(MaterialKinds), rr \in Roulette :
        LET res == DeferredBounce(b_state, sm, rr, MaxCameraPathLen) IN
        /\ BounceDone(sm, rr, res)
        /\ b_alive' = res.pushed
    /\ UNCHANGED b_vertex_count

\* deferred_vertices.cpp: bounce(scene, r, h, s, vertex_count)
ProbeBounceCall ==
    /\ b_pc = "hit"
    /\ b_integ.kind = "Probe"
    /\ \E sm \in Samples(MaterialKinds), rr \in Roulette :
        BounceDone(sm, rr, ProbeBounce(b_state, sm, rr))
    /\ b_vertex_count' = b_vertex_count + 1
    /\ UNCHANGED b_alive

NextBounce ==
    \/ PTBounceCall
    \/ BPTBounceCall
    \/ VCMBounceCall
    \/ DeferredBounceCall
    \/ ProbeBounceCall

SpecBounce == InitBounce /\ [][NextBounce]_vars

\* C8: in no integrator does a bounce whose sample has pdf == 0 or a black
\* value push a continuation, and the throughput stays finite (it is not
\* divided by the zero pdf).
C8_ZeroPdfTerminates ==
    \A k \in 1..Len(b_calls) :
        (b_calls[k].sampled
            /\ (b_calls[k].sm.pdf_dir_w = Zero \/ b_calls[k].sm.black)) =>
                /\ ~b_calls[k].pushed
                /\ IsFinite(b_calls[k].s.throughput)

\* C10: a specular bounce of VCMIntegrator::bounce or of the bounce of
\* bpt.cpp continues with dVCM == 0 and with dVC and dVM equal to the values
\* before the bounce times cos_theta_i.
C10_SpecularCollapse ==
    \A k \in 1..Len(b_calls) :
        (b_integ.kind \in {"VCMIntegrator", "BidirPathTracer"}
            /\ b_calls[k].pushed /\ b_calls[k].sm.kind = "specular") =>
                /\ b_calls[k].s.dVCM = Zero
                /\ b_calls[k].s.dVC =
                    RMul(b_calls[k].st.dVC, b_calls[k].sm.cos_theta_i)
                /\ b_calls[k].s.dVM =
                    RMul(b_calls[k].st.dVM, b_calls[k].sm.cos_theta_i)

\* C10 witness: VCMIntegrator::bounce has continued a state with non-zero
\* partial weights over a specular component with a cosine below 1, a pdf
\* other than 1 and a roulette probability other than 1.
C10_Witness ==
    /\ b_integ.kind = "VCMIntegrator"
    /\ \E k \in 1..Len(b_calls) :
        /\ b_calls[k].pushed
        /\ b_calls[k].sm.kind = "specular"
        /\ b_calls[k].sm.cos_theta_i # One
        /\ b_calls[k].sm.pdf_dir_w # One
        /\ b_calls[k].rr.rr_pdf # One
        /\ b_calls[k].st.dVCM # Zero
        /\ b_calls[k].st.dVC \notin {Zero, One}
        /\ b_calls[k].st.dVM \notin {Zero, One}

(***************************************************************************)
(* One camera hit of VCMIntegrator::process_camera_rays.                   *)
(***************************************************************************)
\* trace_camera_paths runs with !lt_only
CameraHitIntegrators ==
    {[kind |-> "VCMIntegrator", mis |-> "none", bpt_only |-> b,
      ppm_only |-> p, lt_only |-> FALSE, pt_only |-> t] :
        b \in BOOLEAN, p \in BOOLEAN, t \in BOOLEAN}

CameraHitStates ==
    {st \in BounceStates([NoIntegrator EXCEPT !.kind = "VCMIntegrator"]) :
        st.dVCM = One /\ st.dVC = st.dVM}

\* hits[i].tri_id < 0, isect.mat->is_specular(), isect.mat->light()
Hits == [miss : BOOLEAN, mat_specular : BOOLEAN, light : BOOLEAN]

\* the samples and the roulette results drawn while a camera hit is processed
HitSamples(kinds) ==
    {sm \in [kind : kinds, pdf_dir_w : {Zero, One}, pdf_rev_w : {Zero, One},
             cos_theta_i : {One}, black : BOOLEAN] :
        /\ sm.kind = "none" => sm.pdf_dir_w = Zero /\ sm.black
        /\ sm.kind # "diffuse" => sm.pdf_rev_w = Zero
        /\ sm.kind = "diffuse" => sm.pdf_rev_w # Zero}

HitRoulette == {rr \in Roulette : rr.rr_pdf = One}

\* the components bsdf->sample can return at the hit
HitKinds(hit) ==
    (IF b_integ.ppm_only THEN SpecularKinds ELSE AllKinds)
    \cap (IF hit.mat_specular THEN SpecularKinds ELSE AllKinds)

\* the sample of the bounce of the ppm_only block, drawn only with ppm_only
FirstSamples(hit) ==
    IF b_integ.ppm_only THEN HitSamples(HitKinds(hit))
    ELSE {[kind |-> "none", pdf_dir_w |-> Zero, pdf_rev_w |-> Zero,
           cos_theta_i |-> One, black |-> TRUE]}

InitCameraHit ==
    \E integ \in CameraHitIntegrators, eta \in PosFracs,
       state \in CameraHitStates :
        InitBounceAt(integ, eta, state)

\* "Complete computation of partial MIS weights", for a hit at distance 1
CompleteMis(state, cos_theta_o) ==
    [state EXCEPT
        !.dVCM = RMul(state.dVCM,
                      RDiv(mis_heuristic(One), mis_heuristic(cos_theta_o))),
        !.dVC = RMul(state.dVC, RDiv(One, mis_heuristic(cos_theta_o))),
        !.dVM = RMul(state.dVM, RDiv(One, mis_heuristic(cos_theta_o)))]

\* n copies of x
Repeat(x, n) == [k \in 1..n |-> x]

\* the states the calls cs have pushed, in order
RECURSIVE PushedStates(_)
PushedStates(cs) ==
    IF cs = <<>> THEN <<>>
    ELSE (IF Head(cs).pushed THEN <<Head(cs).s>> ELSE <<>>)
         \o PushedStates(Tail(cs))

\* one iteration of the loop of process_camera_rays; n_conn is the number of
\* light vertices connect reaches before it returns
VCMProcessCameraHit ==
    /\ b_pc = "hit"
    /\ b_integ.kind = "VCMIntegrator"
    /\ \E hit \in Hits, cos_theta_o \in PosFracs, n_conn \in 0..MaxLightVerts,
          rr1 \in HitRoulette, rr2 \in HitRoulette :
        \E sm1 \in FirstSamples(hit), sm2 \in HitSamples(HitKinds(hit)) :
        LET \* if (ppm_only) { vertex_merging(...); bounce(...); }
            merge_ppm == b_integ.ppm_only /\ ~hit.mat_specular
            calls_ppm ==
                IF b_integ.ppm_only
                THEN <<Call(b_state, sm1, rr1,
                            VCMBounce(b_state, sm1, rr1, FALSE,
                                      MaxCameraPathLen))>>
                ELSE <<>>
            completed == CompleteMis(b_state, cos_theta_o)
            \* if (isect.mat->light()) ...
            emission ==
                hit.light /\ (b_state.path_length > 1 => ~b_integ.pt_only)
            \* if (!pt_only && !isect.mat->is_specular()) connect(...)
            connections ==
                IF ~b_integ.pt_only /\ ~hit.mat_specular
                THEN Repeat("connect", n_conn) ELSE <<>>
            \* if (!bpt_only) if (!isect.mat->is_specular()) vertex_merging
            merge_vcm == ~b_integ.bpt_only /\ ~hit.mat_specular
            call_last == Call(completed, sm2, rr2,
                              VCMBounce(completed, sm2, rr2, FALSE,
                                        MaxCameraPathLen))
        IN
        /\ b_hit' = hit
        /\ IF hit.miss
           THEN UNCHANGED <<b_state, b_calls, b_rays_out, b_shadow, b_image>>
           ELSE /\ b_state' = completed
                /\ b_calls' = calls_ppm \o <<call_last>>
                /\ b_rays_out' = PushedStates(calls_ppm \o <<call_last>>)
                /\ b_shadow' = <<"nee">> \o connections
                /\ b_image' = (IF merge_ppm THEN <<"merge">> ELSE <<>>)
                              \o (IF emission THEN <<"emission">> ELSE <<>>)
                              \o (IF merge_vcm THEN <<"merge">> ELSE <<>>)
    /\ b_pc' = "done"
    /\ UNCHANGED <<b_integ, b_eta, b_alive, b_vertex_count>>
    /\ UNCHANGED nonbounce

NextCameraHit == VCMProcessCameraHit

SpecCameraHit == InitCameraHit /\ [][NextCameraHit]_vars

\* the number of entries of seq that equal x
Count(seq, x) == Cardinality({k \in 1..Len(seq) : seq[k] = x})

\* C9: with ppm_only, processing a camera hit pushes no next-event-estimation
\* shadow ray and no connection shadow ray, and vertex merging is evaluated
\* exactly once for a hit on a material that is not specular.
C9_PPMOnlyDisablesOthers ==
    (b_pc = "done" /\ b_integ.ppm_only /\ ~b_hit.miss) =>
        /\ Count(b_shadow, "nee") = 0
        /\ Count(b_shadow, "connect") = 0
        /\ ~b_hit.mat_specular => Count(b_image, "merge") = 1

\* C11: a non-specular bounce of VCMIntegrator::bounce, with
\* rp = pdf_dir_w * rr_pdf and rq = pdf_rev_w * rr_pdf, continues with
\* dVM = (cos_i / rp) * (dVM * rq + dVCM * w_VC + 1),
\* dVC = (cos_i / rp) * (dVC * rq + dVCM + w_VM) and dVCM = 1 / rp, all from
\* the values before the bounce.
C11_VCMRecurrences ==
    \A k \in 1..Len(b_calls) :
        (b_integ.kind = "VCMIntegrator" /\ b_calls[k].pushed
            /\ b_calls[k].sm.kind = "diffuse") =>
            LET c == b_calls[k]
                rp == RMul(c.sm.pdf_dir_w, c.rr.rr_pdf)
                rq == RMul(c.sm.pdf_rev_w, c.rr.rr_pdf)
                f == RDiv(c.sm.cos_theta_i, rp)
            IN /\ c.s.dVM = RMul(f, RAdd(RAdd(RMul(c.st.dVM, rq),
                                              RMul(c.st.dVCM, mis_weight_vc_)),
                                         One))
               /\ c.s.dVC = RMul(f, RAdd(RAdd(RMul(c.st.dVC, rq), c.st.dVCM),
                                         mis_weight_vm_))
               /\ c.s.dVCM = RDiv(One, rp)

\* C12: a path that has made no non-specular bounce carries
\* continue_prob == 1: a generated state (path_length 1) has it, a specular
\* bounce of such a state keeps it, and a non-specular bounce stores the
\* Russian-roulette probability of that bounce.
C12_ContinueProbOneUntilDiffuse ==
    /\ (b_integ.kind \in {"VCMIntegrator", "BidirPathTracer"}
            /\ b_state.path_length = 1) => b_state.continue_prob = One
    /\ \A k \in 1..Len(b_calls) :
        (b_integ.kind \in {"VCMIntegrator", "BidirPathTracer"}
            /\ b_calls[k].pushed) =>
            /\ (b_calls[k].st.path_length = 1
                    /\ b_calls[k].sm.kind = "specular") =>
                b_calls[k].s.continue_prob = One
            /\ b_calls[k].sm.kind = "diffuse" =>
                b_calls[k].s.continue_prob = b_calls[k].rr.rr_pdf

(***************************************************************************)
(* DeferredVCM: tracing paths into the vertex caches, then light_tracing,  *)
(* connect and merge over the cached vertices.                             *)
(***************************************************************************)
DPathIds == 1..NDPaths

\* camera_tile_gen_ and light_tile_gen_ each generate their own paths
DKind(p) == IF p % 2 = 1 THEN "cam" ELSE "light"

\* cam_.raster_to_id(raster_pos) of a point anywhere in front of the camera
RasterIds == (0 - 1)..DPixels

\* Vertex(mis, throughput, ancestor, pixel_id, path_len, isect)
Vertex(pixel_id, path_len) == [pixel_id |-> pixel_id, path_len |-> path_len]

InitDeferred ==
    /\ d_pc = "trace"
    /\ d_max \in 2..MaxPathLen
    /\ d_paths = [p \in DPathIds |->
                    [status |-> "idle", path_length |-> 0, pixel_id |-> 0]]
    /\ d_cam = <<>>
    /\ d_light = <<>>
    /\ d_log = {}
    /\ InitQueueIdle
    /\ InitImageIdle
    /\ InitPassIdle
    /\ InitRenderIdle
    /\ InitBounceIdle
    /\ InitSortIdle
    /\ InitLoopIdle
    /\ InitGenIdle
    /\ InitRestIdle

\* the generator lambdas of trace_camera_paths and trace_light_paths:
\* path_length = 1; a light path stores its endpoint with path_len 1 and the
\* light id (one light, id 0) in place of the pixel id
DGenerate(p) ==
    /\ d_pc = "trace"
    /\ d_paths[p].status = "idle"
    /\ \E id \in (IF DKind(p) = "light" THEN {0} ELSE 0..(DPixels - 1)) :
        /\ d_paths' = [d_paths EXCEPT ![p] =
                [status |-> "flying", path_length |-> 1, pixel_id |-> id]]
        /\ d_light' = IF DKind(p) = "light"
                      THEN Append(d_light, Vertex(id, 1)) ELSE d_light
    /\ UNCHANGED <<d_pc, d_max, d_cam, d_log>>
    /\ UNCHANGED nondeferred

\* a ray that leaves the scene: env_hit (process_envmap_hits stores nothing)
DMiss(p) ==
    /\ d_pc = "trace"
    /\ d_paths[p].status = "flying"
    /\ d_paths' = [d_paths EXCEPT ![p].status = "dead"]
    /\ UNCHANGED <<d_pc, d_max, d_cam, d_light, d_log>>
    /\ UNCHANGED nondeferred

\* process_hits(r, h, state, cache, adjoint) with the bounce it ends in:
\* bounce continues the path unless path_length >= max_path_len, Russian
\* roulette rejects, or the sample has pdf 0 or a black value
DProcessHit(p) ==
    /\ d_pc = "trace"
    /\ d_paths[p].status = "flying"
    /\ \E cos_zero \in BOOLEAN, specular \in BOOLEAN, accept \in BOOLEAN,
          zero \in BOOLEAN :
        LET len == d_paths[p].path_length + 1
            v == Vertex(d_paths[p].pixel_id, len)
            stored == ~cos_zero /\ ~specular
            continued == ~AtMaxLength(len, d_max) /\ accept /\ ~zero
        IN
        /\ d_paths' = [d_paths EXCEPT ![p] =
                IF cos_zero THEN [@ EXCEPT !.status = "dead"]
                ELSE [@ EXCEPT !.path_length = len,
                               !.status = IF continued THEN "flying"
                                          ELSE "dead"]]
        /\ d_cam' = IF stored /\ DKind(p) = "cam"
                    THEN Append(d_cam, v) ELSE d_cam
        /\ d_light' = IF stored /\ DKind(p) = "light"
                      THEN Append(d_light, v) ELSE d_light
    /\ UNCHANGED <<d_pc, d_max, d_log>>
    /\ UNCHANGED nondeferred

\* both run_iteration calls have returned: every path was generated and ended
DTraceReturn ==
    /\ d_pc = "trace"
    /\ \A p \in DPathIds : d_paths[p].status = "dead"
    /\ d_pc' = "shade"
    /\ UNCHANGED <<d_max, d_paths, d_cam, d_light, d_log>>
    /\ UNCHANGED nondeferred

\* one entry of the log: the technique, the camera and the light vertex used
\* (0: none), the pixel the contribution goes to, what the geometry and the
\* pdfs were, and whether a shadow ray or a contribution came out
LogEntry(tech, cv, lv, pixel_id, behind, close, zero, emitted) ==
    [tech |-> tech, cv |-> cv, lv |-> lv, pixel_id |-> pixel_id,
     behind |-> behind, close |-> close, zero |-> zero, emitted |-> emitted]

OnImage_any(pixel_id) == TRUE

\* if (state.pixel_id < 0 || state.pixel_id >= width * height) return
OnImage(pixel_id) == ~(pixel_id < 0 \/ pixel_id >= DPixels)

OnLight_off(v) == FALSE

\* if (v.path_len == 1) return false: a vertex on the light source itself
OnLight(v) == v.path_len = 1

\* the generator lambda of light_tracing, called for light_verts_[i]
DLightTracing(i) ==
    /\ d_pc = "shade"
    /\ i \in 1..Len(d_light)
    /\ \E behind \in BOOLEAN, raster \in RasterIds, zero \in BOOLEAN :
        LET emitted == /\ ~OnLight(d_light[i])
                       /\ ~behind
                       /\ OnImage(raster)
                       /\ ~zero
        IN d_log' =
                {LogEntry("lt", 0, i, raster, behind, FALSE, zero, emitted)}
    /\ d_pc' = "shaded"
    /\ UNCHANGED <<d_max, d_paths, d_cam, d_light>>
    /\ UNCHANGED nondeferred

\* the generator lambda of connect for cam_verts_[i]: lv_idx is
\* rng.random_int(0, light_v.size()), close is connect_dist < base_radius_,
\* zero is any of the four pdfs being 0
DConnect(i) ==
    /\ d_pc = "shade"
    /\ i \in 1..Len(d_cam)
    /\ \E lv_idx \in 1..Len(d_light), close \in BOOLEAN, zero \in BOOLEAN :
        LET emitted == /\ ~OnLight(d_light[lv_idx])
                       /\ ~close
                       /\ ~zero
        IN d_log' =
                {LogEntry("connect", i, lv_idx, d_cam[i].pixel_id, FALSE,
                          close, zero, emitted)}
    /\ d_pc' = "shaded"
    /\ UNCHANGED <<d_max, d_paths, d_cam, d_light>>
    /\ UNCHANGED nondeferred

\* one iteration of the loop of merge for cam_verts_[i]: photons is the
\* result of photon_grid_.query (at most settings_.num_knn), zeros the photons for which a pdf is 0 or
\* the bsdf value is black
DMerge(i) ==
    /\ d_pc = "shade"
    /\ i \in 1..Len(d_cam)
    /\ \E photons \in {ph \in SUBSET (1..Len(d_light)) :
                        Cardinality(ph) <= NumKnn} :
        \E zeros \in SUBSET photons :
            d_log' =
                {LogEntry("merge", i, j, d_cam[i].pixel_id, FALSE, FALSE,
                          j \in zeros,
                          ~(d_light[j].path_len <= 1) /\ j \notin zeros) :
                    j \in photons}
    /\ d_pc' = "shaded"
    /\ UNCHANGED <<d_max, d_paths, d_cam, d_light>>
    /\ UNCHANGED nondeferred

NextDeferred ==
    \/ \E p \in DPathIds : DGenerate(p)
    \/ \E p \in DPathIds : DMiss(p)
    \/ \E p \in DPathIds : DProcessHit(p)
    \/ DTraceReturn
    \/ \E i \in 1..Len(d_light) : DLightTracing(i)
    \/ \E i \in 1..Len(d_cam) : DConnect(i)
    \/ \E i \in 1..Len(d_cam) : DMerge(i)

SpecDeferred == InitDeferred /\ [][NextDeferred]_vars

\* C13: every vertex process_hits appends has path_length >= 2, the entries
\* with path_length 1 are light-source endpoints (one per generated light
\* path, none among the camera vertices), and no shadow ray and no merge
\* contribution uses a light vertex with path_length 1.
C13_CachedVerticesAtLeastTwo ==
    /\ \A k \in 1..Len(d_cam) : d_cam[k].path_len >= 2
    /\ \A k \in 1..Len(d_light) : d_light[k].path_len >= 1
    /\ Cardinality({k \in 1..Len(d_light) : d_light[k].path_len = 1})
        = Cardinality({p \in DPathIds :
                        DKind(p) = "light" /\ d_paths[p].status # "idle"})
    /\ \A e \in d_log : e.emitted => d_light[e.lv].path_len >= 2

\* C13 witness: connect drew a light endpoint that is neither close to the
\* camera vertex nor has a zero pdf, and emitted nothing for it, while the
\* cache also holds a longer light vertex.
C13_Witness ==
    \E e \in d_log : /\ e.tech = "connect" /\ d_light[e.lv].path_len = 1
                      /\ ~e.close /\ ~e.zero /\ ~e.emitted
                      /\ \E k \in 1..Len(d_light) : d_light[k].path_len > 1

(***************************************************************************)
(* connect_to_camera of vcm.cpp and bpt.cpp for one light vertex.          *)
(***************************************************************************)
\* process_light_rays calls connect_to_camera; VCMIntegrator only if !ppm_only
ToCameraIntegrators ==
    {integ \in BounceIntegrators :
        \/ integ.kind = "BidirPathTracer"
        \/ integ.kind = "VCMIntegrator" /\ ~integ.ppm_only}

InitToCamera ==
    \E integ \in ToCameraIntegrators :
        \E state \in {st \in BounceStates(integ) :
                        st.dVCM = One /\ st.dVC = One /\ st.dVM = Zero} :
            InitBounceAt(integ, One, state)

\* connect_to_camera(light_state, isect, bsdf, ray_out_shadow): behind is
\* dot(-dir_to_cam, cam_.dir()) < 0, raster is cam_.raster_to_id(raster_pos)
ConnectToCamera ==
    /\ b_pc = "hit"
    /\ b_integ \in ToCameraIntegrators
    /\ \E behind \in BOOLEAN, raster \in RasterIds :
        b_shadow' = IF behind \/ ~OnImage(raster) THEN <<>>
                    ELSE <<[pixel_id |-> raster, behind |-> behind]>>
    /\ b_pc' = "done"
    /\ UNCHANGED <<b_integ, b_eta, b_state, b_hit, b_calls, b_rays_out,
                   b_image, b_alive, b_vertex_count>>
    /\ UNCHANGED nonbounce

\* either one iteration of DeferredVCM or one call of connect_to_camera
SpecToCamera ==
    (InitDeferred \/ InitToCamera) /\ [][NextDeferred \/ ConnectToCamera]_vars

LightPaths ==
    UNION {[1..n -> [close : BOOLEAN, zero : BOOLEAN]] :
            n \in 0..(MaxLightVerts + 1)}

\* process_camera_rays calls connect; VCMIntegrator only if !pt_only
ConnectIntegrators ==
    {[NoIntegrator EXCEPT !.kind = "BidirPathTracer"]}
    \cup {[kind |-> "VCMIntegrator", mis |-> "none", bpt_only |-> b,
           ppm_only |-> p, lt_only |-> FALSE, pt_only |-> FALSE] :
             b \in BOOLEAN, p \in BOOLEAN}

InitConnect ==
    \E integ \in ConnectIntegrators :
        \E state \in {st \in BounceStates(integ) :
                        st.dVCM = One /\ st.dVC = One /\ st.dVM = Zero} :
            InitBounceAt(integ, One, state)

\* VCMIntegrator::connect: the loop over the light path returns at the first
\* pair closer than pm_radius_ and pushes a shadow ray for every pair before
VCMConnect(path) ==
    LET stop == {k \in 1..Len(path) : path[k].close}
        n == IF stop = {} THEN Len(path)
             ELSE (CHOOSE k \in stop : \A j \in stop : k <= j) - 1
    IN [k \in 1..n |-> k]

\* BidirPathTracer::connect: pushes a shadow ray for every light vertex
BPTConnect(path) == [k \in 1..Len(path) |-> k]

\* connect(cam_state, isect, bsdf_cam, bsdf_arena, rays_out_shadow); b_calls
\* keeps the light path, b_shadow the light vertices a ray was pushed for
ConnectCall ==
    /\ b_pc = "hit"
    /\ b_integ \in ConnectIntegrators
    /\ \E path \in LightPaths :
        /\ b_calls' = path
        /\ b_shadow' = IF b_integ.kind = "VCMIntegrator"
                       THEN VCMConnect(path) ELSE BPTConnect(path)
    /\ b_pc' = "done"
    /\ UNCHANGED <<b_integ, b_eta, b_state, b_hit, b_rays_out, b_image,
                   b_alive, b_vertex_count>>
    /\ UNCHANGED nonbounce

\* either one iteration of DeferredVCM or one call of connect
SpecConnect ==
    (InitDeferred \/ InitConnect) /\ [][NextDeferred \/ ConnectCall]_vars

\* C15: a shadow ray is emitted for a pair of a camera vertex and a light
\* vertex exactly if the pair is not closer than the base radius and none of
\* its pdfs is zero, whatever the other pairs of the camera vertex are.
C15_ConnectRule ==
    /\ b_pc = "done" =>
        \A k \in 1..Len(b_calls) :
            (\E j \in 1..Len(b_shadow) : b_shadow[j] = k)
                <=> (~b_calls[k].close /\ ~b_calls[k].zero)
    /\ \A e \in d_log :
        (e.tech = "connect" /\ ~OnLight(d_light[e.lv])) =>
            (e.emitted <=> (~e.close /\ ~e.zero))

(***************************************************************************)
(* RayQueue::compact_rays.                                                 *)
(***************************************************************************)
\* pixel_id of a state: negative for a ray that is not continued
QueuePixelIds == (0 - 1)..(NPixels - 1)

\* the queue before the call: size() entries, each ray paired with its state
InitCompact ==
    /\ \E n \in 0..Capacity :
        \E px \in [0..(n - 1) -> QueuePixelIds] :
            /\ last_ = n - 1
            /\ ray_buffer_ = [i \in Slots |->
                                IF i < n THEN InitEntry(i) ELSE 0]
            /\ state_buffer_ = [i \in Slots |->
                                IF i < n
                                THEN [id |-> InitEntry(i), pixel_id |-> px[i]]
                                ELSE [id |-> 0, pixel_id |-> 0]]
            /\ s_orig = [k \in 1..n |->
                            [ray |-> InitEntry(k - 1),
                             state |-> [id |-> InitEntry(k - 1),
                                        pixel_id |-> px[k - 1]]]]
            /\ n0 = n
    /\ other_size = 0
    /\ qpc = [t \in Threads |-> "idle"]
    /\ qop = [t \in Threads |-> "none"]
    /\ qcnt = [t \in Threads |-> 0]
    /\ qend = [t \in Threads |-> -1]
    /\ qwrote = [t \in Threads |-> {}]
    /\ slot_writers = [i \in Slots |-> {}]
    /\ oob = FALSE
    /\ fatal = FALSE
    /\ s_pc = "compact"
    /\ s_i = 0
    /\ last_empty = -1
    /\ s_count = 0
    /\ hit_buffer_ = <<>>
    /\ dir_w = <<>>
    /\ matcount_ = <<>>
    /\ sorted_indices_ = <<>>
    /\ s_task = <<>>
    /\ s_slot = <<>>
    /\ InitImageIdle
    /\ InitPassIdle
    /\ InitRenderIdle
    /\ InitBounceIdle
    /\ InitDeferredIdle
    /\ InitLoopIdle
    /\ InitGenIdle
    /\ InitRestIdle

CompactMove_off(buf, to, from) == buf

\* states[last_empty] = states[i]; rays[last_empty] = rays[i];
CompactMove(buf, to, from) == [buf EXCEPT ![to] = buf[from]]

\* one iteration of the loop of compact_rays
CompactStep ==
    /\ s_pc = "compact"
    /\ s_i < last_ + 1
    /\ IF state_buffer_[s_i].pixel_id < 0 /\ last_empty = -1
       THEN /\ last_empty' = s_i
            /\ UNCHANGED <<state_buffer_, ray_buffer_>>
       ELSE IF state_buffer_[s_i].pixel_id >= 0 /\ last_empty # -1
       THEN /\ state_buffer_' = CompactMove(state_buffer_, last_empty, s_i)
            /\ ray_buffer_' = CompactMove(ray_buffer_, last_empty, s_i)
            /\ last_empty' = last_empty + 1
       ELSE UNCHANGED <<state_buffer_, ray_buffer_, last_empty>>
    /\ s_i' = s_i + 1
    /\ UNCHANGED <<last_, queuecalls, s_pc, s_orig, s_count, hit_buffer_,
                   dir_w, matcount_, sorted_indices_, s_task, s_slot>>
    /\ UNCHANGED nonsort

\* after the loop: if (last_empty != -1) shrink(last_empty);
CompactShrink ==
    /\ s_pc = "compact"
    /\ ~(s_i < last_ + 1)
    /\ last_' = IF last_empty # -1 THEN last_empty - 1 ELSE last_
    /\ s_pc' = "compacted"
    /\ UNCHANGED <<ray_buffer_, state_buffer_, queuecalls, s_orig, s_i,
                   last_empty, s_count, hit_buffer_, dir_w, matcount_,
                   sorted_indices_, s_task, s_slot>>
    /\ UNCHANGED nonsort

NextCompact == CompactStep \/ CompactShrink

SpecCompact == InitCompact /\ [][NextCompact]_vars

\* the pairs of the original queue that are continued, in their order
C16_Kept == SelectSeq(s_orig, LAMBDA e : e.state.pixel_id >= 0)

\* C16: after compact_rays the queue holds exactly the ray/state pairs that
\* had pixel_id >= 0, each ray with its own state, in their original order,
\* and size() is their number.
C16_CompactRaysKeepsContinued ==
    s_pc = "compacted" =>
        /\ last_ + 1 = Len(C16_Kept)
        /\ \A k \in 1..Len(C16_Kept) :
            /\ state_buffer_[k - 1] = C16_Kept[k].state
            /\ ray_buffer_[k - 1] = C16_Kept[k].ray

\* C16 witness: a queue in which a continued pair followed a dropped one, and
\* a dropped one followed that, has been compacted.
C16_Witness ==
    /\ s_pc = "compacted"
    /\ \E a, b, c \in 1..Len(s_orig) :
        /\ a < b /\ b < c
        /\ s_orig[a].state.pixel_id < 0
        /\ s_orig[b].state.pixel_id >= 0
        /\ s_orig[c].state.pixel_id < 0

(***************************************************************************)
(* RayQueue::sort_by_material.                                             *)
(***************************************************************************)
MatIds == 0..(NumMats - 1)

\* the call sort_by_material(get_mat_id, NumMats, count) on a queue of count
\* hits; matcount_ holds what an earlier call left in it
InitSort ==
    /\ \E count \in 0..Capacity :
        /\ InitQueueAt(count, 0)
        /\ s_count = count
        /\ hit_buffer_ \in [0..(count - 1) -> MatIds]
        /\ dir_w = [i \in 0..(count - 1) |-> 0]
        /\ sorted_indices_ = [k \in 0..(count - 1) |-> -1]
        /\ s_task = [i \in 0..(count - 1) |-> "todo"]
        /\ s_slot = [i \in 0..(count - 1) |-> -1]
    /\ \E stale \in {0, 1} : matcount_ = [m \in MatIds |-> stale]
    /\ s_pc = "fill"
    /\ s_orig = <<>>
    /\ s_i = 0
    /\ last_empty = -1
    /\ InitImageIdle
    /\ InitPassIdle
    /\ InitRenderIdle
    /\ InitBounceIdle
    /\ InitDeferredIdle
    /\ InitLoopIdle
    /\ InitGenIdle
    /\ InitRestIdle

\* std::fill(matcount_.begin(), matcount_.end(), 0);
SortFill ==
    /\ s_pc = "fill"
    /\ matcount_' = [m \in MatIds |-> 0]
    /\ s_pc' = "count"
    /\ UNCHANGED <<qvars, s_orig, s_i, last_empty, s_count, hit_buffer_,
                   dir_w, sorted_indices_, s_task, s_slot>>
    /\ UNCHANGED nonsort

\* iteration i of the first parallel_for: matcount_[mat_id]++ is one atomic
\* read-modify-write
SortCount(i) ==
    /\ s_pc = "count"
    /\ s_task[i] = "todo"
    /\ dir_w' = [dir_w EXCEPT ![i] = hit_buffer_[i]]
    /\ matcount_' = [matcount_ EXCEPT ![hit_buffer_[i]] = @ + 1]
    /\ s_task' = [s_task EXCEPT ![i] = "done"]
    /\ UNCHANGED <<qvars, s_pc, s_orig, s_i, last_empty, s_count,
                   hit_buffer_, sorted_indices_, s_slot>>
    /\ UNCHANGED nonsort

RECURSIVE BinStart_incl(_, _)
BinStart_incl(counts, m) ==
    IF m < 0 THEN 0 ELSE counts[m] + BinStart_incl(counts, m - 1)

\* "Compute the starting index of every bin": accum before bin m is added
RECURSIVE BinStart(_, _)
BinStart(counts, m) ==
    IF m = 0 THEN 0 ELSE counts[m - 1] + BinStart(counts, m - 1)

\* the first parallel_for has returned; the loop over the bins
SortPrefix ==
    /\ s_pc = "count"
    /\ \A i \in DOMAIN s_task : s_task[i] = "done"
    /\ matcount_' = [m \in MatIds |-> BinStart(matcount_, m)]
    /\ s_task' = [i \in DOMAIN s_task |-> "todo"]
    /\ s_pc' = "distribute"
    /\ UNCHANGED <<qvars, s_orig, s_i, last_empty, s_count, hit_buffer_,
                   dir_w, sorted_indices_, s_slot>>
    /\ UNCHANGED nonsort

\* iteration i of the second parallel_for: matcount_[mat]++, an atomic
\* read-modify-write that returns the old value
SortFetch(i) ==
    /\ s_pc = "distribute"
    /\ s_task[i] = "todo"
    /\ s_slot' = [s_slot EXCEPT ![i] = matcount_[dir_w[i]]]
    /\ matcount_' = [matcount_ EXCEPT ![dir_w[i]] = @ + 1]
    /\ s_task' = [s_task EXCEPT ![i] = "fetched"]
    /\ UNCHANGED <<qvars, s_pc, s_orig, s_i, last_empty, s_count,
                   hit_buffer_, dir_w, sorted_indices_>>
    /\ UNCHANGED nonsort

\* sorted_indices_[...] = i
SortWrite(i) ==
    /\ s_pc = "distribute"
    /\ s_task[i] = "fetched"
    /\ sorted_indices_' = [sorted_indices_ EXCEPT ![s_slot[i]] = i]
    /\ s_task' = [s_task EXCEPT ![i] = "done"]
    /\ UNCHANGED <<qvars, s_pc, s_orig, s_i, last_empty, s_count,
                   hit_buffer_, dir_w, matcount_, s_slot>>
    /\ UNCHANGED nonsort

\* the second parallel_for has returned
SortReturn ==
    /\ s_pc = "distribute"
    /\ \A i \in DOMAIN s_task : s_task[i] = "done"
    /\ s_pc' = "sorted"
    /\ UNCHANGED <<qvars, s_orig, s_i, last_empty, s_count, hit_buffer_,
                   dir_w, matcount_, sorted_indices_, s_task, s_slot>>
    /\ UNCHANGED nonsort

NextSort ==
    \/ SortFill
    \/ \E i \in DOMAIN s_task : SortCount(i)
    \/ SortPrefix
    \/ \E i \in DOMAIN s_task : SortFetch(i)
    \/ \E i \in DOMAIN s_task : SortWrite(i)
    \/ SortReturn

SpecSort == InitSort /\ [][NextSort]_vars

\* C17: after sort_by_material, sorted_indices_[0..count) is a permutation
\* of 0..count-1 and the material ids read through it are non-decreasing,
\* under every interleaving of the iterations of the two parallel loops.
C17_SortByMaterial ==
    s_pc = "sorted" =>
        /\ {sorted_indices_[k] : k \in 0..(s_count - 1)} = 0..(s_count - 1)
        /\ \A k, l \in 0..(s_count - 1) :
            k < l => hit_buffer_[sorted_indices_[k]]
                        <= hit_buffer_[sorted_indices_[l]]

\* C17 witness: a queue whose hits were not in material order has been
\* sorted, and two hits of one material came out in the opposite order.
C17_Witness ==
    /\ s_pc = "sorted"
    /\ \E i, j \in 0..(s_count - 1) : i < j /\ hit_buffer_[i] > hit_buffer_[j]
    /\ \E k, l \in 0..(s_count - 1) :
        /\ k < l
        /\ hit_buffer_[sorted_indices_[k]] = hit_buffer_[sorted_indices_[l]]
        /\ sorted_indices_[k] > sorted_indices_[l]

(***************************************************************************)
(* The length of a path: VCMIntegrator::bounce and DeferredVCM.            *)
(***************************************************************************)
InitPathLength ==
    \E integ \in {i \in BounceIntegrators : i.kind = "VCMIntegrator"} :
        \E state \in {st \in BounceStates(integ) :
                        st.dVCM = One /\ st.dVC = One /\ st.dVM = Zero} :
            InitBounceAt(integ, One, state)

\* either one iteration of DeferredVCM or one call of VCMIntegrator::bounce
SpecPathLength ==
    (InitDeferred \/ InitPathLength)
        /\ [][NextDeferred \/ VCMBounceCall]_vars

LoopKinds == {"PathTracer", "light", "camera"}

\* fill_queue with n_samples_ * width_ * height_ = total: the number of
\* rays one call generates
RaysToFill(total, next, qsize) ==
    IF next >= total THEN 0
    ELSE IF Target - qsize <= 0 THEN 0
    ELSE IF next + (Target - qsize) > total THEN total - next
    ELSE Target - qsize

\* PTState::bounces of a camera ray is 0, BPTState::path_length of a
\* generated ray is 1
FirstLength(kind) == IF kind = "PathTracer" THEN 0 ELSE 1

\* states[i].bounces < max_recursion fails, or bounce() returns at
\* state.path_length >= max_length
AtCap(kind, n) ==
    IF kind = "PathTracer" THEN ~(n < max_recursion)
    ELSE IF kind = "light" THEN AtMaxLength(n, MaxLightPathLen)
    ELSE AtMaxLength(n, MaxCameraPathLen)

NextLength_same(n) == n

\* s.bounces++; s.path_length++;
NextLength(n) == n + 1

\* what the traversal and the samples decide for one ray of the in queue:
\* a miss, a path the shading ends (light source hit, Russian roulette), or
\* a path that goes on unless the cap ends it; with or without shadow rays
LoopOutcomes == [fate : {"miss", "stop", "go"}, shadow : BOOLEAN]

\* the rays the processing of the in queue pushes to the out queue
RECURSIVE LoopPushed(_, _, _)
LoopPushed(kind, in, o) ==
    IF in = <<>> THEN <<>>
    ELSE (IF o[1].fate = "go" /\ ~AtCap(kind, in[1])
          THEN <<NextLength(in[1])>> ELSE <<>>)
         \o LoopPushed(kind, Tail(in), Tail(o))

InitLoop ==
    /\ l_kind \in LoopKinds
    /\ l_pc = "fill"
    /\ l_next = 0
    /\ l_in_queue = 0
    /\ l_rays = [q \in {0, 1} |-> <<>>]
    /\ l_shadow = 0
    /\ l_capped = FALSE
    /\ InitQueueIdle
    /\ InitImageIdle
    /\ InitPassIdle
    /\ InitRenderIdle
    /\ InitBounceIdle
    /\ InitDeferredIdle
    /\ InitSortIdle
    /\ InitGenIdle
    /\ InitRestIdle

\* camera->fill_queue(primary_rays[in_queue]);
LoopFill ==
    /\ l_pc = "fill"
    /\ LET count == RaysToFill(LoopRays, l_next, Len(l_rays[l_in_queue]))
       IN /\ l_rays' = [l_rays EXCEPT ![l_in_queue] =
                            @ \o [k \in 1..count |-> FirstLength(l_kind)]]
          /\ l_next' = l_next + count
    /\ l_pc' = "check"
    /\ UNCHANGED <<l_kind, l_in_queue, l_shadow, l_capped>>
    /\ UNCHANGED nonloop

\* if (primary_rays[in_queue].size() <= 0) break;
LoopCheck ==
    /\ l_pc = "check"
    /\ l_pc' = IF Len(l_rays[l_in_queue]) <= 0 THEN "done" ELSE "traverse"
    /\ UNCHANGED <<l_kind, l_next, l_in_queue, l_rays, l_shadow, l_capped>>
    /\ UNCHANGED nonloop

\* primary_rays[in_queue].traverse(scene_); process_primary_rays(...);
LoopProcess ==
    /\ l_pc = "traverse"
    /\ LET in == l_rays[l_in_queue]
       IN \E o \in [1..Len(in) -> LoopOutcomes] :
            /\ l_rays' = [l_rays EXCEPT ![1 - l_in_queue] =
                              @ \o LoopPushed(l_kind, in, o)]
            /\ l_shadow' = l_shadow +
                   Cardinality({k \in 1..Len(in) :
                                   o[k].fate # "miss" /\ o[k].shadow})
            /\ l_capped' = (l_capped \/ \E k \in 1..Len(in) :
                                o[k].fate = "go" /\ AtCap(l_kind, in[k]))
    /\ l_pc' = "clear"
    /\ UNCHANGED <<l_kind, l_next, l_in_queue>>
    /\ UNCHANGED nonloop

\* primary_rays[in_queue].clear();
LoopClear ==
    /\ l_pc = "clear"
    /\ l_rays' = [l_rays EXCEPT ![l_in_queue] = <<>>]
    /\ l_pc' = "shadow"
    /\ UNCHANGED <<l_kind, l_next, l_in_queue, l_shadow, l_capped>>
    /\ UNCHANGED nonloop

\* if (shadow_rays.size() > 0) { traverse_occluded; process_shadow_rays;
\* shadow_rays.clear(); }
LoopShadow ==
    /\ l_pc = "shadow"
    /\ l_shadow' = IF l_shadow > 0 THEN 0 ELSE l_shadow
    /\ l_pc' = "swap"
    /\ UNCHANGED <<l_kind, l_next, l_in_queue, l_rays, l_capped>>
    /\ UNCHANGED nonloop

\* std::swap(in_queue, out_queue);
LoopSwap ==
    /\ l_pc = "swap"
    /\ l_in_queue' = 1 - l_in_queue
    /\ l_pc' = "fill"
    /\ UNCHANGED <<l_kind, l_next, l_rays, l_shadow, l_capped>>
    /\ UNCHANGED nonloop

NextLoop ==
    \/ LoopFill
    \/ LoopCheck
    \/ LoopProcess
    \/ LoopClear
    \/ LoopShadow
    \/ LoopSwap

SpecLoop == InitLoop /\ [][NextLoop]_vars

\* the thread that runs the loop goes on executing statements
SpecLoopFair == SpecLoop /\ WF_vars(NextLoop)

\* C19: whatever the traversal and the samples decide, each of the three
\* scheduler loops reaches its break after finitely many iterations.
C19_PassTerminates == <>(l_pc = "done")

\* a path tracer pass has come to its break after the generator gave all its
\* primaries and a path was ended by the cap, not by the samples
C19_Witness ==
    /\ l_kind = "PathTracer"
    /\ l_pc = "done"
    /\ l_next = LoopRays
    /\ l_capped

\* ---------------------------------------------------------------------------
\* Seeding of the generated rays: PixelRayGen::fill_queue (render/ray_gen.h)
\* and the light probes of estimate_light_path_len, in two runs.

Runs == {1, 2}

\* n_samples_ * width_ * height_, with width_ * height_ = GenPixels
GenTotal == GenSamples * GenPixels

\* what std::random_device gives for rd()
RdValues == 0..MaxRd

\* a ^ b of two non-negative ints
RECURSIVE BitXor(_, _)
BitXor(a, b) ==
    IF a = 0 THEN b
    ELSE IF b = 0 THEN a
    ELSE (((a % 2) + (b % 2)) % 2) + 2 * BitXor(a \div 2, b \div 2)

\* seed = 33 * seed ^ i;  (the product binds tighter than ^; for the values of
\* RdValues and the ray indices drawn here it stays inside int)
Scramble(seed, i) == BitXor(33 * seed, i)

\* int seed = seed_base; followed by the four scrambling lines
BernsteinSeed(seed_base, i) ==
    Scramble(Scramble(Scramble(Scramble(seed_base, i), i), i), i)

\* RNG(seed), and rng.discard(n) on it
RNG(seed) == [seed |-> seed, discarded |-> 0]

Discard(rng, n) == [rng EXCEPT !.discarded = @ + n]

\* the state fill_queue creates for index i under seed_base
GenState(seed_base, i) ==
    LET pixel_idx == i % GenPixels
        sample_idx == i \div GenPixels
        seed == BernsteinSeed(seed_base, i)
    IN [i |-> i, pixel_id |-> pixel_idx, sample_id |-> sample_idx,
        rng |-> Discard(RNG(seed), (seed % 5) + 16 + (pixel_idx % 5))]

\* bernstein_seed(light_id, ray_id): some fixed function of its two arguments
bernstein_seed(a, b) == <<"bernstein_seed", a, b>>

InitGen ==
    /\ g_pc = "run"
    /\ g_next = [r \in Runs |-> 0]
    /\ g_rays = [r \in Runs |-> <<>>]
    /\ g_probes = [r \in Runs |-> {}]
    /\ InitQueueIdle
    /\ InitImageIdle
    /\ InitPassIdle
    /\ InitRenderIdle
    /\ InitBounceIdle
    /\ InitDeferredIdle
    /\ InitSortIdle
    /\ InitLoopIdle
    /\ InitRestIdle

\* fill_queue(out) of run r, with out.size() = qsize and rd() = seed_base
GenFill(r) ==
    /\ g_pc = "run"
    /\ \E qsize \in 0..Target, seed_base \in RdValues :
         LET count == RaysToFill(GenTotal, g_next[r], qsize)
         IN /\ count > 0
            /\ g_rays' = [g_rays EXCEPT ![r] =
                   @ \o [k \in 1..count |->
                            GenState(seed_base, g_next[r] + k - 1)]]
            /\ g_next' = [g_next EXCEPT ![r] = @ + count]
    /\ UNCHANGED <<g_pc, g_probes>>
    /\ UNCHANGED nongen

\* the ray generation lambda of estimate_light_path_len for one probe
ProbeSample(r) ==
    /\ g_pc = "run"
    /\ \E ray_id \in 0..(NProbes - 1), light_id \in {0} :
         /\ \A p \in g_probes[r] :
                ~(p.ray_id = ray_id /\ p.light_id = light_id)
         /\ g_probes' = [g_probes EXCEPT ![r] = @ \cup
                {[ray_id |-> ray_id, light_id |-> light_id,
                  rng |-> RNG(bernstein_seed(light_id, ray_id))]}]
    /\ UNCHANGED <<g_pc, g_next, g_rays>>
    /\ UNCHANGED nongen

NextGen ==
    \/ \E r \in Runs : GenFill(r)
    \/ \E r \in Runs : ProbeSample(r)

SpecGen == InitGen /\ [][NextGen]_vars

\* C20: in two runs with the same settings, the same generated ray has the
\* same random number generator state: a camera ray of the same pixel and
\* sample, and a light probe of the same light and ray id.
C20_SameSeedInBothRuns ==
    g_pc = "run" =>
        /\ \A a \in 1..Len(g_rays[1]), b \in 1..Len(g_rays[2]) :
               (/\ g_rays[1][a].pixel_id = g_rays[2][b].pixel_id
                /\ g_rays[1][a].sample_id = g_rays[2][b].sample_id)
               => g_rays[1][a].rng = g_rays[2][b].rng
        /\ \A p \in g_probes[1], q \in g_probes[2] :
               (p.ray_id = q.ray_id /\ p.light_id = q.light_id)
               => p.rng = q.rng

\* ---------------------------------------------------------------------------
\* DeferredVCM::path_tracing, and the iterations that should add nothing.

\* the generator lambda of path_tracing(img, next_evt = true) for
\* cam_verts_[i]: emissive is !is_black(mat.emit), back is cos_out < 0, zero
\* is pdf_dir_w == 0 || pdf_rev_w == 0.  An emissive vertex adds its emission
\* and gives no shadow ray; any other vertex gives the shadow ray of
\* next-event estimation unless a pdf is zero.
DPathTracing(i) ==
    /\ d_pc = "shade"
    /\ i \in 1..Len(d_cam)
    /\ \E emissive \in BOOLEAN, back \in BOOLEAN, zero \in BOOLEAN :
        d_log' =
            IF emissive
            THEN {LogEntry("emission", i, 0, d_cam[i].pixel_id, back, FALSE,
                           FALSE, ~back)}
            ELSE {LogEntry("nee", i, 0, d_cam[i].pixel_id, FALSE, FALSE,
                           zero, ~zero)}
    /\ d_pc' = "shaded"
    /\ UNCHANGED <<d_max, d_paths, d_cam, d_light>>
    /\ UNCHANGED nondeferred

\* an iteration with settings_.max_path_len = 0, or the iteration of
\* DeferredVCM<mis::MisLT>::render with light_path_count = 0, in which
\* trace_camera_paths is not called and light_tile_gen_ has no path to give
InitEmpty ==
    /\ d_pc = "trace"
    /\ \/ /\ d_max = 0
          /\ d_paths = [p \in DPathIds |->
                    [status |-> "idle", path_length |-> 0, pixel_id |-> 0]]
       \/ /\ d_max \in 2..MaxPathLen
          /\ d_paths = [p \in DPathIds |->
                    [status |-> "dead", path_length |-> 0, pixel_id |-> 0]]
    /\ d_cam = <<>>
    /\ d_light = <<>>
    /\ d_log = {}
    /\ InitQueueIdle
    /\ InitImageIdle
    /\ InitPassIdle
    /\ InitRenderIdle
    /\ InitBounceIdle
    /\ InitSortIdle
    /\ InitLoopIdle
    /\ InitGenIdle
    /\ InitRestIdle

NextEmpty ==
    \/ NextDeferred
    \/ \E i \in 1..Len(d_cam) : DPathTracing(i)

SpecEmpty == InitEmpty /\ [][NextEmpty]_vars

\* C21: in an iteration with max_path_len = 0, and in a light tracing
\* iteration without light paths, the only contribution a shading pass gives
\* is the emission of a directly visible light source: no next-event
\* estimation, connection, merging or light tracing.
C21_EmptyIterationAddsOnlyEmission ==
    \A e \in d_log : e.emitted => e.tech = "emission"

\* ---------------------------------------------------------------------------
\* The radius schedule of render().

RadiusIntegrators ==
    {"VCMIntegrator", "DeferredVCM<MisVCM>", "DeferredVCM<MisSPPM>"}

\* a - b
RSub(a, b) == RAdd(a, RMul(Rat(0 - 1, 1), b))

\* a <= b, for finite a and b
RLe(a, b) == a.n * b.d <= b.n * a.d

\* std::max(a, b)
RMax(a, b) == IF RLe(a, b) THEN b ELSE a

\* 1e-7f, in units of 1e-7
MinRadius == One

\* 0.5f * (1.0f - radius_alpha)
PowExponent(alpha) == RMul(Rat(1, 2), RSub(One, alpha))

\* the eighth power of powf(x, e) for an exponent e = k / 8
PowF8(x, e) == x ^ (RMul(e, Rat(8, 1)).n)

\* pm_radius_ = base_radius_ / powf(cur_iteration_, 0.5f * (1 - radius_alpha));
\* pm_radius_ = std::max(pm_radius_, 1e-7f);
Radius(base, iter, alpha) ==
    RMax(RDiv(Rat(base, 1), Rat(PowF8(iter, PowExponent(alpha)), 1)),
         MinRadius)

\* the eighth power of max(1e-7, r_base * i^(-0.375))
ScheduleRadius(base, i) == RMax(MinRadius, RDiv(Rat(base, 1), Rat(i ^ 3, 1)))

\* radius_alpha is the literal 0.75f in DeferredVCM and the member
\* radius_alpha_, set by the caller, in VCMIntegrator
InitRadius ==
    /\ m_pc = "call"
    /\ m_integ \in RadiusIntegrators
    /\ base_radius_ \in {b ^ 8 : b \in 1..MaxBase}
    /\ radius_alpha_ \in (IF m_integ = "VCMIntegrator"
                          THEN {Rat(1, 4), Rat(3, 4)} ELSE {Rat(3, 4)})
    /\ pm_radius_ = Zero
    /\ InitQueueIdle
    /\ InitImageIdle
    /\ InitPassIdle
    /\ InitRenderIdle
    /\ InitBounceIdle
    /\ InitDeferredIdle
    /\ InitSortIdle
    /\ InitLoopIdle
    /\ InitGenIdle
    /\ InitMisIdle
    /\ InitLaterIdle

\* cur_iteration_++;
RadiusInc ==
    /\ m_pc = "call"
    /\ cur_iteration_ < MaxRadiusIter
    /\ cur_iteration_' = cur_iteration_ + 1
    /\ m_pc' = "inc"
    /\ UNCHANGED <<m_integ, base_radius_, radius_alpha_, pm_radius_>>
    /\ UNCHANGED <<integrator, rpc, iteration, cam_verts_, light_verts_,
                   photon_grid_, grid_built, n_added, cam_traced, light_traced,
                   task, dropped, last_read>>
    /\ UNCHANGED nonradius

\* the two assignments to pm_radius_, and the rest of render()
RadiusSet ==
    /\ m_pc = "inc"
    /\ pm_radius_' = Radius(base_radius_, cur_iteration_, radius_alpha_)
    /\ m_pc' = "call"
    /\ UNCHANGED <<m_integ, base_radius_, radius_alpha_>>
    /\ UNCHANGED rvars
    /\ UNCHANGED nonradius

NextRadius ==
    \/ RadiusInc
    \/ RadiusSet

SpecRadius == InitRadius /\ [][NextRadius]_vars

\* C22: render() raises cur_iteration_ by exactly one before it computes the
\* radius; after i iterations the radius is max(1e-7, r_base * i^(-0.375)),
\* which is r_base after the first iteration; and the radius of an iteration
\* is never larger than the radius of the iteration before.
C22_RadiusSchedule ==
    /\ [](m_pc = "call" /\ cur_iteration_ >= 1
            => pm_radius_ = ScheduleRadius(base_radius_, cur_iteration_))
    /\ [](m_pc = "call" /\ cur_iteration_ = 1
            => pm_radius_ = Rat(base_radius_, 1))
    /\ [][pm_radius_' # pm_radius_
            => m_pc = "inc" /\ cur_iteration_' = cur_iteration_]_vars
    /\ [][m_pc = "call" /\ m_pc' = "inc"
            => cur_iteration_' = cur_iteration_ + 1]_vars
    /\ [][m_pc = "inc" /\ cur_iteration_ >= 2
            => RLe(pm_radius_', pm_radius_)]_vars

\* ---------------------------------------------------------------------------
\* The MIS weights VCMIntegrator computes for one path.  The path has the
\* vertices camera - x1 - x2 - light; its edges have the squared lengths
\* d[1], d[2], d[3].  For a surface vertex, cos_c and cos_l are
\* |dot(normal, direction)| towards the neighbour on the camera side and on
\* the light side, f is bsdf->pdf(camera side, light side) and r is
\* bsdf->pdf(light side, camera side).  Shading and geometry normals
\* coincide, Russian roulette continues every path with rr_pdf = 1, and the
\* scene has one area light, so pdf_lightpick = 1.

\* the values a pdf, a cosine or a squared distance of the path is drawn from
MisValues == {Rat(1, 2), One}

MisDists == {One, Rat(2, 1)}

MisVertex == [cos_c : MisValues, cos_l : {One}, f : MisValues, r : MisValues]

\* image_plane_dist, the cosine at the camera, light_path_count_, the two
\* surface vertices, the squared edge lengths, and what the light gives for
\* the point and direction of the path: cos_out, pdf_direct_a, pdf_emit_w
MisPaths ==
    [image_plane_dist : {One}, cos_cam : {One}, light_path_count_ : {One},
     x : [{1, 2} -> MisVertex],
     d : [{1, 2, 3} -> MisDists],
     cos_out : {One}, pdf_direct_a : MisValues, pdf_emit_w : MisValues]

MisIntegrators ==
    {[kind |-> "VCMIntegrator", mis |-> "none", bpt_only |-> b,
      ppm_only |-> FALSE, lt_only |-> FALSE, pt_only |-> FALSE] :
        b \in BOOLEAN}

sqr(a) == RMul(a, a)

\* what bsdf->sample gives when it samples the next vertex of the path
MisSample(pdf_dir_w, pdf_rev_w, cos_theta_i) ==
    [kind |-> "diffuse", pdf_dir_w |-> pdf_dir_w, pdf_rev_w |-> pdf_rev_w,
     cos_theta_i |-> cos_theta_i, black |-> FALSE]

\* russian_roulette accepts with rr_pdf = 1
MisRoulette == [accept |-> TRUE, rr_pdf |-> One]

\* the ray generation lambda of trace_light_paths (the light is not a delta
\* light and is finite)
LightState(path) ==
    LET pdf_lightpick == One
        dVC == mis_heuristic(RDiv(path.cos_out,
                                  RMul(path.pdf_emit_w, pdf_lightpick)))
    IN [throughput |-> One, path_length |-> 1, continue_prob |-> One,
        dVCM |-> mis_heuristic(RDiv(path.pdf_direct_a, path.pdf_emit_w)),
        dVC |-> dVC, dVM |-> RMul(dVC, mis_weight_vc_),
        is_finite |-> TRUE, bounces |-> 0, last_specular |-> FALSE]

\* pdf_cam_w = sqr(cam_.image_plane_dist() / cos_theta_o) / cos_theta_o
PdfCamW(path) ==
    RDiv(sqr(RDiv(path.image_plane_dist, path.cos_cam)), path.cos_cam)

\* the ray generation lambda of trace_camera_paths
CameraState(path) ==
    [throughput |-> One, path_length |-> 1, continue_prob |-> One,
     dVCM |-> mis_heuristic(RDiv(path.light_path_count_, PdfCamW(path))),
     dVC |-> Zero, dVM |-> Zero,
     is_finite |-> TRUE, bounces |-> 0, last_specular |-> FALSE]

\* process_light_rays: "Complete calculation of the partial weights"
LightHitState(state, dist_sq, cos_theta_i) ==
    LET dVCM == IF state.path_length > 1 \/ state.is_finite
                THEN RMul(state.dVCM, mis_heuristic(dist_sq)) ELSE state.dVCM
    IN [state EXCEPT
            !.dVCM = RMul(dVCM, RDiv(One, mis_heuristic(cos_theta_i))),
            !.dVC = RMul(state.dVC, RDiv(One, mis_heuristic(cos_theta_i))),
            !.dVM = RMul(state.dVM, RDiv(One, mis_heuristic(cos_theta_i)))]

\* process_camera_rays: "Complete computation of partial MIS weights"
CameraHitState(state, dist_sq, cos_theta_o) ==
    [state EXCEPT
        !.dVCM = RMul(state.dVCM, RDiv(mis_heuristic(dist_sq),
                                       mis_heuristic(cos_theta_o))),
        !.dVC = RMul(state.dVC, RDiv(One, mis_heuristic(cos_theta_o))),
        !.dVM = RMul(state.dVM, RDiv(One, mis_heuristic(cos_theta_o)))]

\* connect_to_camera: mis_weight, with img_to_surf computed from the camera
ConnectToCameraWeight(light_state, path, dist_to_cam_sqr, cos_theta_o, pdf_rev_w) ==
    LET cos_theta_i == path.cos_cam
        pdf_rev == RMul(pdf_rev_w, light_state.continue_prob)
        img_to_surf ==
            RDiv(RMul(sqr(path.image_plane_dist), cos_theta_o),
                 RMul(dist_to_cam_sqr, RMul(cos_theta_i, sqr(cos_theta_i))))
        pdf_cam == img_to_surf
        mis_weight_light ==
            RMul(mis_heuristic(RDiv(pdf_cam, path.light_path_count_)),
                 RAdd(RAdd(mis_weight_vm_, light_state.dVCM),
                      RMul(light_state.dVC, mis_heuristic(pdf_rev))))
    IN IF b_integ.lt_only THEN One
       ELSE RDiv(One, RAdd(mis_weight_light, One))

\* process_camera_rays, if (isect.mat->light()): the weight of the radiance
\* of a light source the camera path has hit
LightHitWeight(state, pdf_direct_a, pdf_emit_w) ==
    LET pdf_lightpick == One
        pdf_di == RMul(pdf_direct_a, pdf_lightpick)
        pdf_e == RMul(pdf_emit_w, pdf_lightpick)
        mis_weight_camera ==
            RAdd(RMul(mis_heuristic(pdf_di), state.dVCM),
                 RMul(mis_heuristic(pdf_e), state.dVC))
    IN IF state.path_length > 1
       THEN RDiv(One, RAdd(mis_weight_camera, One))
       ELSE One

\* direct_illum: mis_weight, for a light that is not a delta light; sample is
\* what ls->sample_direct gives
DirectIllumWeight(cam_state, sample, cos_theta_i, pdf_dir_w, pdf_rev_w) ==
    LET inv_pdf_lightpick == One
        cos_theta_o == sample.cos_out
        pdf_forward == RMul(cam_state.continue_prob, pdf_dir_w)
        pdf_reverse == RMul(cam_state.continue_prob, pdf_rev_w)
        mis_weight_light ==
            mis_heuristic(RDiv(RMul(pdf_forward, inv_pdf_lightpick),
                               sample.pdf_direct_w))
        mis_weight_camera ==
            RMul(mis_heuristic(RDiv(RMul(sample.pdf_emit_w, cos_theta_i),
                                    RMul(sample.pdf_direct_w, cos_theta_o))),
                 RAdd(RAdd(mis_weight_vm_, cam_state.dVCM),
                      RMul(cam_state.dVC, mis_heuristic(pdf_reverse))))
    IN IF b_integ.pt_only THEN One
       ELSE RDiv(One, RAdd(RAdd(mis_weight_camera, One), mis_weight_light))

\* connect: mis_weight for the camera state and one light vertex
ConnectWeight(cam_state, light_vertex, connect_dist_sq, cos_theta_cam, cos_theta_light, pdf_dir_cam_w, pdf_rev_cam_w, pdf_dir_light_w, pdf_rev_light_w) ==
    LET pdf_cam_f == RMul(pdf_dir_cam_w, cam_state.continue_prob)
        pdf_cam_r == RMul(pdf_rev_cam_w, cam_state.continue_prob)
        pdf_light_f == RMul(pdf_dir_light_w, light_vertex.continue_prob)
        pdf_light_r == RMul(pdf_rev_light_w, light_vertex.continue_prob)
        pdf_cam_a == RDiv(RMul(pdf_cam_f, cos_theta_light), connect_dist_sq)
        pdf_light_a == RDiv(RMul(pdf_light_f, cos_theta_cam), connect_dist_sq)
        mis_weight_light ==
            RMul(mis_heuristic(pdf_cam_a),
                 RAdd(RAdd(mis_weight_vm_, light_vertex.dVCM),
                      RMul(light_vertex.dVC, mis_heuristic(pdf_light_r))))
        mis_weight_camera ==
            RMul(mis_heuristic(pdf_light_a),
                 RAdd(RAdd(mis_weight_vm_, cam_state.dVCM),
                      RMul(cam_state.dVC, mis_heuristic(pdf_cam_r))))
    IN RDiv(One, RAdd(RAdd(mis_weight_camera, One), mis_weight_light))

\* vertex_merging: mis_weight for the camera state and one photon
MergeWeight(state, p, pdf_dir_w, pdf_rev_w) ==
    LET pdf_forward == RMul(pdf_dir_w, state.continue_prob)
        pdf_reverse == RMul(pdf_rev_w, state.continue_prob)
        mis_weight_light ==
            RAdd(RMul(p.dVCM, mis_weight_vc_),
                 RMul(p.dVM, mis_heuristic(pdf_forward)))
        mis_weight_camera ==
            RAdd(RMul(state.dVCM, mis_weight_vc_),
                 RMul(state.dVM, mis_heuristic(pdf_reverse)))
    IN IF b_integ.ppm_only THEN One
       ELSE RDiv(One, RAdd(RAdd(mis_weight_light, One), mis_weight_camera))

\* the path starts with trace_light_paths, as in render()
InitMis ==
    /\ b_integ \in MisIntegrators
    /\ b_eta \in {Rat(1, 2), One, Rat(2, 1)}
    /\ b_pc = "idle"
    /\ b_state = <<>>
    /\ b_hit = <<>>
    /\ b_calls = <<>>
    /\ b_rays_out = <<>>
    /\ b_shadow = <<>>
    /\ b_image = <<>>
    /\ b_alive = TRUE
    /\ b_vertex_count = 0
    /\ w_pc = "light_gen"
    /\ w_at = 3
    /\ w_path \in MisPaths
    /\ w_state = <<>>
    /\ w_verts = <<>>
    /\ w_weights = <<>>
    /\ InitQueueIdle
    /\ InitImageIdle
    /\ InitPassIdle
    /\ InitRenderIdle
    /\ InitDeferredIdle
    /\ InitSortIdle
    /\ InitLoopIdle
    /\ InitGenIdle
    /\ InitRadiusIdle
    /\ InitLaterIdle

\* the light path is generated at the light, vertex 3
MisGenLight ==
    /\ w_pc = "light_gen"
    /\ w_state' = LightState(w_path)
    /\ w_pc' = "light_hit"
    /\ UNCHANGED <<w_at, w_path, w_verts, w_weights>>
    /\ UNCHANGED <<bvars, nonmis>>

\* process_light_rays for the hit at the next vertex v: the vertex is
\* appended to light_paths_ and connected to the camera; from x1 this
\* connection is the path
MisLightHit ==
    /\ w_pc = "light_hit"
    /\ LET v == w_at - 1
           st == LightHitState(w_state, w_path.d[v + 1], w_path.x[v].cos_l)
       IN /\ w_state' = st
          /\ w_at' = v
          /\ w_verts' = IF ~b_integ.lt_only THEN Append(w_verts, st)
                        ELSE w_verts
          /\ w_weights' =
                IF ~b_integ.ppm_only /\ v = 1
                THEN w_weights @@ ("light tracing" :>
                        ConnectToCameraWeight(st, w_path, w_path.d[1],
                            w_path.x[1].cos_c, w_path.x[1].f))
                ELSE w_weights
          /\ w_pc' = IF v = 1 THEN "cam_gen" ELSE "light_bounce"
    /\ UNCHANGED w_path
    /\ UNCHANGED <<bvars, nonmis>>

\* bounce(states[i], isect, bsdf, rays_out, true, MAX_LIGHT_PATH_LEN) samples
\* the direction to the next vertex on the camera side
MisLightBounce ==
    /\ w_pc = "light_bounce"
    /\ LET x == w_path.x[w_at]
           res == VCMBounce(w_state, MisSample(x.r, x.f, x.cos_c),
                            MisRoulette, TRUE, MisMaxLength)
       IN /\ res.pushed
          /\ w_state' = res.s
    /\ w_pc' = "light_hit"
    /\ UNCHANGED <<w_at, w_path, w_verts, w_weights>>
    /\ UNCHANGED <<bvars, nonmis>>

\* the camera path is generated at the camera, vertex 0
MisGenCamera ==
    /\ w_pc = "cam_gen"
    /\ w_state' = CameraState(w_path)
    /\ w_at' = 0
    /\ w_pc' = "cam_hit"
    /\ UNCHANGED <<w_path, w_verts, w_weights>>
    /\ UNCHANGED <<bvars, nonmis>>

\* what ls->sample_direct gives for the light point of the path, seen from
\* x2: the pdf of the point with respect to the solid angle at x2
MisDirectSample(path) ==
    [pdf_direct_w |-> RDiv(RMul(path.pdf_direct_a, path.d[3]), path.cos_out),
     pdf_emit_w |-> path.pdf_emit_w, cos_out |-> path.cos_out]

\* the techniques process_camera_rays applies at the surface vertex v that
\* give the path: at x1 the connection to the stored vertex x2 and the merge
\* with the photon at x1, at x2 the direct illumination and the merge with
\* the photon at x2
MisTechniques(st, v) ==
    LET x == w_path.x[v]
        connected ==
            IF v = 1 /\ ~b_integ.pt_only
            THEN "connection" :>
                    ConnectWeight(st, w_verts[1], w_path.d[2], x.cos_l,
                                  w_path.x[2].cos_c, x.f, x.r,
                                  w_path.x[2].r, w_path.x[2].f)
            ELSE <<>>
        lit ==
            IF v = 2
            THEN "direct illumination" :>
                    DirectIllumWeight(st, MisDirectSample(w_path), x.cos_l,
                                      x.f, x.r)
            ELSE <<>>
        merged ==
            IF ~b_integ.bpt_only
            THEN (IF v = 1 THEN "merge at x1" ELSE "merge at x2") :>
                    MergeWeight(st, w_verts[3 - v], x.f, x.r)
            ELSE <<>>
    IN connected @@ lit @@ merged

\* process_camera_rays for the hit at the next vertex v, up to the call of
\* bounce
MisCameraHit ==
    /\ w_pc = "cam_hit"
    /\ LET v == w_at + 1
       IN IF v = 3
          THEN LET st == CameraHitState(w_state, w_path.d[3], w_path.cos_out)
               IN /\ w_state' = st
                  /\ w_weights' = w_weights @@ ("light hit" :>
                        LightHitWeight(st, w_path.pdf_direct_a,
                                       w_path.pdf_emit_w))
                  /\ w_pc' = "done"
          ELSE LET st == CameraHitState(w_state, w_path.d[v],
                                        w_path.x[v].cos_c)
               IN /\ w_state' = st
                  /\ w_weights' = w_weights @@ MisTechniques(st, v)
                  /\ w_pc' = "cam_bounce"
    /\ w_at' = w_at + 1
    /\ UNCHANGED <<w_path, w_verts>>
    /\ UNCHANGED <<bvars, nonmis>>

\* bounce(states[i], isect, bsdf, rays_out, false, MAX_CAMERA_PATH_LEN)
\* samples the direction to the next vertex on the light side
MisCameraBounce ==
    /\ w_pc = "cam_bounce"
    /\ LET x == w_path.x[w_at]
           res == VCMBounce(w_state, MisSample(x.f, x.r, x.cos_l),
                            MisRoulette, FALSE, MisMaxLength)
       IN /\ res.pushed
          /\ w_state' = res.s
    /\ w_pc' = "cam_hit"
    /\ UNCHANGED <<w_at, w_path, w_verts, w_weights>>
    /\ UNCHANGED <<bvars, nonmis>>

NextMis ==
    \/ MisGenLight
    \/ MisLightHit
    \/ MisLightBounce
    \/ MisGenCamera
    \/ MisCameraHit
    \/ MisCameraBounce

SpecMis == InitMis /\ [][NextMis]_vars

\* the sum of the weights of the techniques in ts
RECURSIVE MisSum(_, _)
MisSum(w, ts) ==
    IF ts = {} THEN Zero
    ELSE LET t == CHOOSE t \in ts : TRUE
         IN RAdd(w[t], MisSum(w, ts \ {t}))

\* C23: when every technique that creates the path has computed its MIS
\* weight - the light hit, direct illumination, the connection, light
\* tracing and, unless bpt_only, the two merges - the weights sum to 1.
C23_MisPartitionOfUnity ==
    w_pc = "done" => MisSum(w_weights, DOMAIN w_weights) = One

\* ------------------------------------------------------------------------
\* PixelRayGen: one frame of primary rays
\* ------------------------------------------------------------------------

FrameKinds == {"capacity", "target"}

\* max_rays(): n_samples_ * width_ * height_.
MaxRays == FrameSamples * FrameWidth * FrameHeight

FramePairs == (0..(FrameWidth * FrameHeight - 1)) \X (0..(FrameSamples - 1))

\* "make sure that no pixel is sampled more than n_samples_ times".
ClipCount_none(next, count) == count
ClipCount(next, count) ==
    IF next + count > MaxRays THEN MaxRays - next ELSE count

\* The number of rays one call of fill_queue generates; 0 is an early return.
FrameCount(kind, next, target, cap, qsize) ==
    IF next >= MaxRays THEN 0
    ELSE LET count == IF kind = "capacity" THEN cap - qsize ELSE target - qsize
         IN  IF count <= 0 THEN 0 ELSE ClipCount(next, count)

\* pixel_idx and sample_idx of ray i.
PixelIdx(kind, i) ==
    IF kind = "capacity" THEN i \div FrameSamples
    ELSE i % (FrameWidth * FrameHeight)

SampleIdx(kind, i) ==
    IF kind = "capacity" THEN i % FrameSamples
    ELSE i \div (FrameWidth * FrameHeight)

InitFrame ==
    /\ f_kind \in FrameKinds
    /\ f_pc = "run"
    /\ f_next = 0
    /\ f_cap \in 1..Capacity
    /\ f_target \in (IF f_kind = "target" THEN 1..f_cap ELSE {0})
    /\ f_size \in 0..f_cap
    /\ f_log = <<>>
    /\ f_free = 0
    /\ f_pushed = 0
    /\ InitProbeIdle
    /\ InitQueueIdle
    /\ InitImageIdle
    /\ InitPassIdle
    /\ InitRenderIdle
    /\ InitBounceIdle
    /\ InitDeferredIdle
    /\ InitSortIdle
    /\ InitLoopIdle
    /\ InitGenIdle
    /\ InitRadiusIdle
    /\ InitMisIdle

\* fill_queue: every ray of the call is offered to sample_pixel, and pushed
\* unless the callback of ray_gen/ray_gen.h refuses it.
FrameFillQueue ==
    /\ f_pc = "run"
    /\ LET count == FrameCount(f_kind, f_next, f_target, f_cap, f_size)
       IN  /\ \E accepted \in 0..count :
                /\ f_kind = "target" => accepted = count
                /\ f_size' = f_size + accepted
                /\ f_pushed' = accepted
           /\ f_log' = f_log \o [k \in 1..count |->
                                    <<PixelIdx(f_kind, f_next + k - 1),
                                      SampleIdx(f_kind, f_next + k - 1)>>]
           /\ f_next' = f_next + count
    /\ f_free' = f_cap - f_size
    /\ UNCHANGED <<f_kind, f_pc, f_target, f_cap, nonframe>>

\* The render loop between two calls: the queue that was filled is traversed,
\* processed and cleared, and swapped with the queue of the continuation rays,
\* of which there is at most one per processed ray.
FrameSwap ==
    /\ f_pc = "run"
    /\ f_size > 0
    /\ \E n \in 0..f_size : f_size' = n
    /\ UNCHANGED <<f_kind, f_pc, f_next, f_target, f_cap, f_log, f_free,
                   f_pushed, nonframe>>

\* start_frame.
FrameStart ==
    /\ f_pc = "run"
    /\ f_next > 0
    /\ f_next' = 0
    /\ f_log' = <<>>
    /\ UNCHANGED <<f_kind, f_pc, f_target, f_cap, f_size, f_free, f_pushed,
                   nonframe>>

NextFrame == FrameFillQueue \/ FrameSwap \/ FrameStart

SpecFrame == InitFrame /\ [][NextFrame]_vars

InitAppend ==
    /\ \E n \in 0..BufSize : \E o \in 0..MaxBatch : InitQueueAt(n, o)
    /\ InitImageIdle
    /\ InitPassIdle
    /\ InitRenderIdle
    /\ InitBounceIdle
    /\ InitNewIdle

NextAppend ==
    \E t \in Threads :
        \/ QueueAppend(t)
        \/ PushAssert(t)
        \/ PushCopyRays(t)
        \/ PushCopyStates(t)

SpecAppend == InitAppend /\ [][NextAppend]_vars

\* The slots append(other) is to fill.
AppendRange == { i \in Slots : n0 <= i /\ i < n0 + other_size }

\* C26: when a single append(other) has returned, it has written exactly the
\* slots [n0, n0 + other.size()), which hold the entries 0 .. other.size() - 1
\* of the other queue in order, every other slot holds what it held before,
\* and size() is n0 + other.size().
C26_AppendWritesExactlyOtherSize ==
    \A t \in Threads :
        (/\ qop[t] = "append"
         /\ qpc[t] = "done"
         /\ \A u \in Threads \ {t} : qpc[u] = "idle") =>
            /\ qwrote[t] = AppendRange
            /\ ~oob
            /\ \A i \in AppendRange :
                /\ ray_buffer_[i] = OtherEntry(i - n0)
                /\ state_buffer_[i] = OtherEntry(i - n0)
            /\ \A i \in Slots \ AppendRange :
                /\ ray_buffer_[i] = (IF i < n0 THEN InitEntry(i) ELSE 0)
                /\ state_buffer_[i] = (IF i < n0 THEN InitEntry(i) ELSE 0)
            /\ size = n0 + other_size

\* ------------------------------------------------------------------------
\* compact_hits
\* ------------------------------------------------------------------------

\* hits[i].tri_id after a traversal: negative for a miss.
TriIds == {-1, 0, 1}

InitCompactHits ==
    /\ \E n \in 0..Capacity :
        \E tri \in [0..(n - 1) -> TriIds] :
            /\ last_ = n - 1
            /\ ray_buffer_ = [i \in Slots |->
                                IF i < n THEN InitEntry(i) ELSE 0]
            /\ state_buffer_ = [i \in Slots |->
                                IF i < n
                                THEN [id |-> InitEntry(i), pixel_id |-> 0]
                                ELSE [id |-> 0, pixel_id |-> 0]]
            /\ hit_buffer_ = [i \in 0..(n - 1) |->
                                [id |-> InitEntry(i), tri_id |-> tri[i]]]
            /\ s_orig = [k \in 1..n |->
                            [ray |-> InitEntry(k - 1),
                             state |-> [id |-> InitEntry(k - 1),
                                        pixel_id |-> 0],
                             hit |-> [id |-> InitEntry(k - 1),
                                      tri_id |-> tri[k - 1]]]]
            /\ sorted_indices_ = [k \in 0..(n - 1) |-> 0]
            /\ n0 = n
    /\ other_size = 0
    /\ qpc = [t \in Threads |-> "idle"]
    /\ qop = [t \in Threads |-> "none"]
    /\ qcnt = [t \in Threads |-> 0]
    /\ qend = [t \in Threads |-> -1]
    /\ qwrote = [t \in Threads |-> {}]
    /\ slot_writers = [i \in Slots |-> {}]
    /\ oob = FALSE
    /\ fatal = FALSE
    /\ s_pc = "compact_hits"
    /\ s_i = 0
    /\ last_empty = -1
    /\ s_count = 0
    /\ dir_w = <<>>
    /\ matcount_ = <<>>
    /\ s_task = <<>>
    /\ s_slot = <<>>
    /\ InitImageIdle
    /\ InitPassIdle
    /\ InitRenderIdle
    /\ InitBounceIdle
    /\ InitDeferredIdle
    /\ InitLoopIdle
    /\ InitGenIdle
    /\ InitRestIdle

CompactSwap_move(buf, a, b) == [buf EXCEPT ![a] = buf[b]]

\* std::swap(hits[last_empty], hits[i]); and the same for states and rays
CompactSwap(buf, a, b) == [buf EXCEPT ![a] = buf[b], ![b] = buf[a]]

\* one iteration of the first loop of compact_hits
CompactHitsStep ==
    /\ s_pc = "compact_hits"
    /\ s_i < last_ + 1
    /\ IF hit_buffer_[s_i].tri_id < 0 /\ last_empty = -1
       THEN /\ last_empty' = s_i
            /\ UNCHANGED <<hit_buffer_, state_buffer_, ray_buffer_>>
       ELSE IF hit_buffer_[s_i].tri_id >= 0 /\ last_empty # -1
       THEN /\ hit_buffer_' = CompactSwap(hit_buffer_, last_empty, s_i)
            /\ state_buffer_' = CompactSwap(state_buffer_, last_empty, s_i)
            /\ ray_buffer_' = CompactSwap(ray_buffer_, last_empty, s_i)
            /\ last_empty' = last_empty + 1
       ELSE UNCHANGED <<hit_buffer_, state_buffer_, ray_buffer_, last_empty>>
    /\ s_i' = s_i + 1
    /\ UNCHANGED <<last_, queuecalls, s_pc, s_orig, s_count, dir_w,
                   matcount_, sorted_indices_, s_task, s_slot>>
    /\ UNCHANGED nonsort

\* after the loop: for (int i = 0; i <= last_; ++i) sorted_indices_[i] = i;
CompactHitsIndices ==
    /\ s_pc = "compact_hits"
    /\ ~(s_i < last_ + 1)
    /\ sorted_indices_' = [k \in DOMAIN sorted_indices_ |->
                              IF k <= last_ THEN k ELSE sorted_indices_[k]]
    /\ s_pc' = "hits_compacted"
    /\ UNCHANGED <<last_, ray_buffer_, state_buffer_, queuecalls, s_orig,
                   s_i, last_empty, s_count, hit_buffer_, dir_w, matcount_,
                   s_task, s_slot>>
    /\ UNCHANGED nonsort

\* if (last_empty != -1) return last_empty; else return size();
CompactHitsReturn == IF last_empty # -1 THEN last_empty ELSE size

NextCompactHits == CompactHitsStep \/ CompactHitsIndices

SpecCompactHits == InitCompactHits /\ [][NextCompactHits]_vars

\* The (ray, state, hit) triple the queue holds in slot i.
Triple(i) ==
    [ray |-> ray_buffer_[i], state |-> state_buffer_[i],
     hit |-> hit_buffer_[i]]

\* C25: when compact_hits returns k, the entries [0, k) all have
\* tri_id >= 0, the entries [k, size()) all have tri_id < 0, k is the number
\* of hits, the queue holds the same (ray, state, hit) triples as before (the
\* triples are pairwise different, so the sets are the multisets), every ray
\* still next to its own state and hit, and sorted_indices_ is the identity
\* on [0, size()).
C25_CompactHitsPartitions ==
    s_pc = "hits_compacted" =>
        /\ \A i \in 0..(CompactHitsReturn - 1) : hit_buffer_[i].tri_id >= 0
        /\ \A i \in CompactHitsReturn..(size - 1) : hit_buffer_[i].tri_id < 0
        /\ CompactHitsReturn =
              Cardinality({k \in DOMAIN s_orig : s_orig[k].hit.tri_id >= 0})
        /\ size = Len(s_orig)
        /\ {Triple(i) : i \in 0..(size - 1)}
              = {s_orig[k] : k \in DOMAIN s_orig}
        /\ \A i \in 0..(size - 1) : sorted_indices_[i] = i

\* C25 witness: a queue of three rays in which a hit followed a miss and a
\* miss followed that has been compacted, and a swap has taken place.
C25_Witness ==
    /\ s_pc = "hits_compacted"
    /\ Len(s_orig) = 3
    /\ s_orig[1].hit.tri_id < 0
    /\ s_orig[2].hit.tri_id >= 0
    /\ s_orig[3].hit.tri_id >= 0
    /\ CompactHitsReturn = 2
    /\ ray_buffer_[2] = InitEntry(0)

\* ------------------------------------------------------------------------
\* The two primary queues of a pass
\* ------------------------------------------------------------------------

\* The process callback is about to be called: the in queue was traversed
\* and no iteration of the processing loop has run yet.
ProcessCalled ==
    /\ ppc = "process"
    /\ p_todo = DOMAIN primary_rays_[in_queue]

\* C27: whenever the process callback is called the out primary queue and the
\* shadow queue are empty; after processing, the in queue is cleared before
\* the queues are swapped, so that the queue that becomes the out queue is
\* empty; and no ray is traversed or processed twice.
C27_DoubleBuffer ==
    /\ (ppc \in {"traverse"} \/ ProcessCalled) =>
            /\ primary_rays_[out_queue] = <<>>
            /\ shadow_rays_ = <<>>
    /\ ppc \in {"shadow_check", "shadow_traverse", "shadow_process",
                "shadow_clear", "swap"} =>
            primary_rays_[in_queue] = <<>>
    /\ ppc \in {"fill", "check"} => primary_rays_[out_queue] = <<>>
    /\ \A k \in DOMAIN processed : processed[k] <= 1 /\ traversed[k] <= 1

\* C27 witness: the callback is called on the queue that was the out queue
\* of the iteration before, which holds continuation rays.
C27_Witness ==
    /\ ProcessCalled
    /\ in_queue = 1
    /\ Len(primary_rays_[in_queue]) > 0
    /\ \E k \in DOMAIN primary_rays_[in_queue] :
            primary_rays_[in_queue][k].path_length > 1
    /\ \E k \in DOMAIN processed : processed[k] = 1

\* C28: processing one camera hit pushes at most one continuation ray into the
\* out primary queue, in every integrator and every mode.
C28_OneContinuationPerHit ==
    b_pc = "done" => Len(b_rays_out) <= 1

\* ------------------------------------------------------------------------
\* The path-length probes (deferred_vertices.cpp)
\* ------------------------------------------------------------------------

ProbeKinds == {"light", "cam"}

\* Russian roulette that accepts does so with survival probability 1, which
\* keeps the throughput of a probe at its initial value.
ProbeRoulette == {rr \in Roulette : rr.accept => rr.rr_pdf = One}

\* vertex_count++ / ++vertex_count; values above MaxVertexCount are not told
\* apart.
CountVertex(n) == IF n < MaxVertexCount THEN n + 1 ELSE n

InitProbe ==
    /\ e_pc = "generate"
    /\ e_kind \in ProbeKinds
    /\ e_left \in 1..NProbes
    /\ e_state = <<>>
    /\ e_hits = 0
    /\ e_vertex_count = 0
    /\ InitFrameIdle
    /\ InitQueueIdle
    /\ InitImageIdle
    /\ InitPassIdle
    /\ InitRenderIdle
    /\ InitBounceIdle
    /\ InitDeferredIdle
    /\ InitSortIdle
    /\ InitLoopIdle
    /\ InitGenIdle
    /\ InitRadiusIdle
    /\ InitMisIdle

\* The sampling callback starts the next probe path: state.throughput is set,
\* and the light probe counts the vertex on the light.
ProbeGenerate ==
    /\ e_pc = "generate"
    /\ e_left > 0
    /\ e_left' = e_left - 1
    /\ e_state' = [throughput |-> One]
    /\ e_hits' = 0
    /\ e_vertex_count' = IF e_kind = "light" THEN CountVertex(e_vertex_count)
                         ELSE e_vertex_count
    /\ e_pc' = "traverse"
    /\ UNCHANGED <<e_kind, nonprobe>>

\* run_iteration returns when the generator is exhausted and no path is left.
ProbeReturn ==
    /\ e_pc = "generate"
    /\ e_left = 0
    /\ e_pc' = "done"
    /\ UNCHANGED <<e_kind, e_left, e_state, e_hits, e_vertex_count, nonprobe>>

\* The ray of the path is traversed; a ray that leaves the scene ends the
\* path (no callback for the environment is passed).
ProbeTraverse ==
    /\ e_pc = "traverse"
    /\ \E hit \in BOOLEAN : e_pc' = IF hit THEN "shade" ELSE "generate"
    /\ UNCHANGED <<e_kind, e_left, e_state, e_hits, e_vertex_count, nonprobe>>

\* The hit callback: bounce(scene, r, h, s, vertex_count). A call that returns
\* without a new ray ends the path.
ProbeShade ==
    /\ e_pc = "shade"
    /\ e_vertex_count' = CountVertex(e_vertex_count)
    /\ \E sm \in Samples(MaterialKinds), rr \in ProbeRoulette :
        LET res == ProbeBounce(e_state, sm, rr) IN
        /\ e_state' = res.s
        /\ e_pc' = IF res.pushed THEN "traverse" ELSE "generate"
        /\ e_hits' = IF res.pushed /\ e_hits < MaxProbeHits
                     THEN e_hits + 1 ELSE e_hits
    /\ UNCHANGED <<e_kind, e_left, nonprobe>>

NextProbe == ProbeGenerate \/ ProbeReturn \/ ProbeTraverse \/ ProbeShade

SpecProbe == InitProbe /\ [][NextProbe]_vars

\* The scheduler keeps working as long as it has a ray or the generator has
\* a path to start.
SpecProbeFair == SpecProbe /\ WF_vars(NextProbe)

\* C30: the probing pass ends: every probe path is continued only finitely
\* many times, whatever the scene and the outcomes of Russian roulette are.
C30_ProbesTerminate == <>(e_pc = "done")

\* ------------------------------------------------------------------------
\* The life of one RayQueue: construction, then any sequence of operations
\* ------------------------------------------------------------------------

\* The slots the callers use: they keep size() at or below the capacity they
\* asked for.
LifeSlots == 0..(LifeCapacity - 1)

\* pixel_id of a state that is pushed: -1 for a path that has ended.
LifePixelIds == {-1, 0}

\* A hit: -1 for a miss, otherwise the material id of the surface hit.
LifeHits == {-1} \cup MatIds

\* RayQueue(capacity): ray_buffer_ is zeroed, state_buffer_ and
\* sorted_indices_ are vectors of value-initialized elements, last_ is -1;
\* hit_buffer_ is not initialized.
InitLife ==
    /\ last_ = -1
    /\ ray_buffer_ = [i \in Slots |-> 0]
    /\ state_buffer_ = [i \in Slots |-> [id |-> 0, pixel_id |-> 0]]
    /\ \E h \in [LifeSlots -> LifeHits] :
        hit_buffer_ = [i \in Slots |-> IF i \in LifeSlots THEN h[i] ELSE -1]
    /\ sorted_indices_ = [k \in Slots |-> 0]
    /\ dir_w = [i \in Slots |-> 0]
    /\ matcount_ = <<>>
    /\ n0 = 0
    /\ other_size = 0
    /\ qpc = [t \in Threads |-> "idle"]
    /\ qop = [t \in Threads |-> "none"]
    /\ qcnt = [t \in Threads |-> 0]
    /\ qend = [t \in Threads |-> -1]
    /\ qwrote = [t \in Threads |-> {}]
    /\ slot_writers = [i \in Slots |-> {}]
    /\ oob = FALSE
    /\ fatal = FALSE
    /\ s_pc = "life"
    /\ s_orig = <<>>
    /\ s_i = 0
    /\ last_empty = -1
    /\ s_count = 0
    /\ s_task = <<>>
    /\ s_slot = <<>>
    /\ InitImageIdle
    /\ InitPassIdle
    /\ InitRenderIdle
    /\ InitBounceIdle
    /\ InitDeferredIdle
    /\ InitLoopIdle
    /\ InitGenIdle
    /\ InitRestIdle

lifeframe == <<queuecalls, s_pc, s_orig, s_i, last_empty, s_count, s_task,
               s_slot>>

\* push(ray, state) by a single caller
LifePush ==
    /\ s_pc = "life"
    /\ size < LifeCapacity
    /\ AssertInRange(last_ + 1)
    /\ last_' = last_ + 1
    /\ ray_buffer_' = [ray_buffer_ EXCEPT ![last_ + 1] = 1]
    /\ dir_w' = [dir_w EXCEPT ![last_ + 1] = 0]
    /\ \E px \in LifePixelIds :
        state_buffer_' = [state_buffer_ EXCEPT
                             ![last_ + 1] = [id |-> 1, pixel_id |-> px]]
    /\ UNCHANGED <<hit_buffer_, sorted_indices_, matcount_, lifeframe>>
    /\ UNCHANGED nonsort

\* clear()
LifeClear ==
    /\ s_pc = "life"
    /\ size > 0
    /\ last_' = -1
    /\ UNCHANGED <<ray_buffer_, state_buffer_, hit_buffer_, sorted_indices_,
                   dir_w, matcount_, lifeframe>>
    /\ UNCHANGED nonsort

\* traverse(data): a hit is written for each of the align(size()) rays at
\* the front of the buffers; the rays behind the capacity are zeroed rays,
\* which hit nothing.
LifeTraverse ==
    /\ s_pc = "life"
    /\ size # 0
    /\ \E h \in [LifeSlots -> LifeHits] :
        hit_buffer_' = [i \in Slots |->
                          IF i \in LifeSlots /\ i < align(size) THEN h[i]
                          ELSE IF i < align(size) THEN -1
                          ELSE hit_buffer_[i]]
    /\ UNCHANGED <<last_, ray_buffer_, state_buffer_, sorted_indices_, dir_w,
                   matcount_, lifeframe>>
    /\ UNCHANGED nonsort

\* The loop of compact_rays from iteration i on; n is size().
RECURSIVE CompactRaysRun(_, _, _, _, _, _)
CompactRaysRun(states, rays, ws, i, le, n) ==
    IF ~(i < n) THEN [states |-> states, rays |-> rays, ws |-> ws, le |-> le]
    ELSE IF states[i].pixel_id < 0 /\ le = -1
    THEN CompactRaysRun(states, rays, ws, i + 1, i, n)
    ELSE IF states[i].pixel_id >= 0 /\ le # -1
    THEN CompactRaysRun(CompactMove(states, le, i), CompactMove(rays, le, i),
                        CompactMove(ws, le, i), i + 1, le + 1, n)
    ELSE CompactRaysRun(states, rays, ws, i + 1, le, n)

\* compact_rays()
LifeCompactRays ==
    /\ s_pc = "life"
    /\ LET res == CompactRaysRun(state_buffer_, ray_buffer_, dir_w, 0, -1,
                                 size)
       IN  /\ state_buffer_' = res.states
           /\ ray_buffer_' = res.rays
           /\ dir_w' = res.ws
           /\ last_' = IF res.le # -1 THEN res.le - 1 ELSE last_
    /\ UNCHANGED <<hit_buffer_, sorted_indices_, matcount_, lifeframe>>
    /\ UNCHANGED nonsort

\* The first loop of compact_hits from iteration i on; n is size().
RECURSIVE CompactHitsRun(_, _, _, _, _, _, _)
CompactHitsRun(hits, states, rays, ws, i, le, n) ==
    IF ~(i < n)
    THEN [hits |-> hits, states |-> states, rays |-> rays, ws |-> ws,
          le |-> le]
    ELSE IF hits[i] < 0 /\ le = -1
    THEN CompactHitsRun(hits, states, rays, ws, i + 1, i, n)
    ELSE IF hits[i] >= 0 /\ le # -1
    THEN CompactHitsRun(CompactSwap(hits, le, i), CompactSwap(states, le, i),
                        CompactSwap(rays, le, i), CompactSwap(ws, le, i),
                        i + 1, le + 1, n)
    ELSE CompactHitsRun(hits, states, rays, ws, i + 1, le, n)

\* compact_hits()
LifeCompactHits ==
    /\ s_pc = "life"
    /\ LET res == CompactHitsRun(hit_buffer_, state_buffer_, ray_buffer_,
                                 dir_w, 0, -1, size)
       IN  /\ hit_buffer_' = res.hits
           /\ state_buffer_' = res.states
           /\ ray_buffer_' = res.rays
           /\ dir_w' = res.ws
    /\ sorted_indices_' = [k \in Slots |->
                              IF k <= last_ THEN k ELSE sorted_indices_[k]]
    /\ UNCHANGED <<last_, matcount_, lifeframe>>
    /\ UNCHANGED nonsort

\* sort_by_material(get_mat_id, num_mats, count) on the count hits at the
\* front: the material id goes into dir.w, matcount_ ends at the end of
\* every bin, and sorted_indices_[0 .. count) receives the indices
\* 0 .. count - 1 in the order of their material, in any order inside a bin.
LifeSort ==
    /\ s_pc = "life"
    /\ \E count \in 0..size :
        /\ \A i \in 0..(count - 1) : hit_buffer_[i] >= 0
        /\ dir_w' = [i \in Slots |->
                        IF i < count THEN hit_buffer_[i] ELSE dir_w[i]]
        /\ matcount_' = [m \in MatIds |->
              Cardinality({i \in 0..(count - 1) : hit_buffer_[i] <= m})]
        /\ \E p \in [0..(count - 1) -> 0..(count - 1)] :
            /\ \A k, l \in 0..(count - 1) : k # l => p[k] # p[l]
            /\ \A k, l \in 0..(count - 1) :
                k < l => hit_buffer_[p[k]] <= hit_buffer_[p[l]]
            /\ sorted_indices_' = [k \in Slots |->
                                      IF k < count THEN p[k]
                                      ELSE sorted_indices_[k]]
    /\ UNCHANGED <<last_, ray_buffer_, state_buffer_, hit_buffer_, lifeframe>>
    /\ UNCHANGED nonsort

NextLife ==
    \/ LifePush
    \/ LifeClear
    \/ LifeTraverse
    \/ LifeCompactRays
    \/ LifeCompactHits
    \/ LifeSort

SpecLife == InitLife /\ [][NextLife]_vars

\* C29: in every state of a queue reached by construction, push, clear,
\* compact_rays, compact_hits and sort_by_material, sorted_indices_ maps the
\* indices below size() to pairwise different buffer entries below size().
C29_SortedIndicesPermutation ==
    s_pc = "life" =>
        /\ \A i \in 0..(size - 1) : sorted_indices_[i] \in 0..(size - 1)
        /\ \A i, j \in 0..(size - 1) :
            i # j => sorted_indices_[i] # sorted_indices_[j]

=============================================================================
